---- MODULE Spec2Model ----
(***************************************************************************)
(* Retrieval scoring and fusion pipeline of BaseVector-Core.               *)
(*                                                                         *)
(* Scores are Python floats in the source.  They are modelled as exact     *)
(* rationals <<n, d>> in lowest terms with d > 0, so that two scores are   *)
(* equal exactly when their tuples are equal.  A RetrievalResult is the    *)
(* record [chunk_id, score]; document_id, content and metadata are never   *)
(* written by the pipeline and are left out (the content of a result is    *)
(* identified with its chunk_id where a (query, content) pair is built).   *)
(***************************************************************************)
EXTENDS Integers, Sequences, FiniteSets, TLC

VARIABLES op, last, fin, fout

vars == <<op, last, fin, fout>>

-----------------------------------------------------------------------------
(* Bounds of the model *)

MaxLen == 3        \* longest result list handed to a pure function
MaxScore == 2      \* raw scores given to a pure function are drawn from 0 .. MaxScore
MaxTopK == 2       \* top_k is drawn from 1 .. MaxTopK, or from None, 1 .. MaxTopK - 1
NumIds == 4        \* chunk ids of the fusion inputs are drawn from 1 .. NumIds
MaxFuseLen == 3    \* longest source list handed to _rrf_fusion
MaxWLen == 2       \* longest source list handed to _weighted_fusion
MaxHits == 2       \* most hits the storage returns to a direct single-source process call
MaxSubHits == 1    \* most hits the storage returns to any other retrieval
CfgTopK == 2       \* the top_k a retriever is configured with
MaxTextLen == 3    \* every text of at most MaxTextLen characters is segmented
MaxLongLen == 18   \* longest text of letters with at most one full stop
MaxChunkSize == 17 \* chunk_size / child_size is drawn from 1 .. MaxChunkSize
MaxOverlap == 12   \* chunk_overlap / child_overlap is drawn from 0 .. MaxOverlap
MaxLines == 3      \* most lines of a Markdown text handed to segmentation
MaxLevel == 5      \* heading lines carry 1 .. MaxLevel hashes
MaxParentSize == 7 \* parent_size is drawn from 1 .. MaxParentSize, or left at its default
MaxParagraph == 4  \* a paragraph of a two-paragraph text has 1 .. MaxParagraph letters
NumSettings == 2   \* the Settings instances a caller installs are 1 .. NumSettings
MaxBlocks == 2     \* deepest nesting of with_settings blocks
NumCallers == 2    \* the callers (threads) that share one operator are 1 .. NumCallers
MaxCalls == 2      \* most invocations one caller makes

-----------------------------------------------------------------------------
(* Exact rational arithmetic standing for float arithmetic *)

Abs(x) == IF x < 0 THEN -x ELSE x

RECURSIVE GCD(_, _)
GCD(a, b) == IF b = 0 THEN a ELSE GCD(b, a % b)

Rat(n, d) ==
    LET s == IF d < 0 THEN -1 ELSE 1
        g == GCD(Abs(n), Abs(d))
    IN  <<(s * n) \div g, (s * d) \div g>>

R(i) == <<i, 1>>

RAdd(a, b) == Rat(a[1] * b[2] + b[1] * a[2], a[2] * b[2])
RSub(a, b) == Rat(a[1] * b[2] - b[1] * a[2], a[2] * b[2])
RMul(a, b) == Rat(a[1] * b[1], a[2] * b[2])
RDiv(a, b) == Rat(a[1] * b[2], a[2] * b[1])
RLt(a, b) == a[1] * b[2] < b[1] * a[2]
RLe(a, b) == a[1] * b[2] <= b[1] * a[2]

Zero == R(0)
One == R(1)

-----------------------------------------------------------------------------
(* Python list primitives *)

Min2(a, b) == IF a < b THEN a ELSE b
Max2(a, b) == IF a > b THEN a ELSE b

\* seq[:k]
Slice(seq, k) ==
    IF k >= 0 THEN SubSeq(seq, 1, Min2(k, Len(seq)))
    ELSE SubSeq(seq, 1, Max2(Len(seq) + k, 0))

\* min(scores) / max(scores) of a non-empty list
RECURSIVE MinScore(_)
MinScore(rs) ==
    IF Len(rs) = 1 THEN rs[1].score
    ELSE LET m == MinScore(Tail(rs))
         IN  IF RLt(m, rs[1].score) THEN m ELSE rs[1].score

RECURSIVE MaxScoreOf(_)
MaxScoreOf(rs) ==
    IF Len(rs) = 1 THEN rs[1].score
    ELSE LET m == MaxScoreOf(Tail(rs))
         IN  IF RLt(rs[1].score, m) THEN m ELSE rs[1].score

\* list.sort(key=lambda x: x.score, reverse=True): stable, descending.
\* Insert x behind every element whose score is >= x.score.
RECURSIVE InsertDesc(_, _)
InsertDesc(sorted, x) ==
    IF sorted = <<>> THEN <<x>>
    ELSE IF RLe(x.score, sorted[1].score)
         THEN <<sorted[1]>> \o InsertDesc(Tail(sorted), x)
         ELSE <<x>> \o sorted

RECURSIVE SortDescFrom(_, _)
SortDescFrom(acc, rest) ==
    IF rest = <<>> THEN acc
    ELSE SortDescFrom(InsertDesc(acc, rest[1]), Tail(rest))

SortDescUnstable(rs) ==
    LET RECURSIVE Ins(_, _)
        Ins(sorted, x) ==
            IF sorted = <<>> THEN <<x>>
            ELSE IF RLt(x.score, sorted[1].score)
                 THEN <<sorted[1]>> \o Ins(Tail(sorted), x)
                 ELSE <<x>> \o sorted
        RECURSIVE Go(_, _)
        Go(acc, rest) == IF rest = <<>> THEN acc ELSE Go(Ins(acc, rest[1]), Tail(rest))
    IN  Go(<<>>, rs)

SortDesc(rs) == SortDescFrom(<<>>, rs)

WithScore(r, s) == [r EXCEPT !.score = s]

-----------------------------------------------------------------------------
(* BaseRetriever._normalize_scores *)

NormalizeNoDegenerate(results) ==
    IF results = <<>> THEN results
    ELSE LET min_score == MinScore(results)
             max_score == MaxScoreOf(results)
             score_range == RSub(max_score, min_score)
         IN  IF max_score = min_score THEN results
             ELSE [i \in 1..Len(results) |->
                      WithScore(results[i],
                                RDiv(RSub(results[i].score, min_score), score_range))]

_normalize_scores(results) ==
    IF results = <<>> THEN results
    ELSE LET min_score == MinScore(results)
             max_score == MaxScoreOf(results)
             score_range == RSub(max_score, min_score)
         IN  IF max_score = min_score
             THEN IF max_score # One
                  THEN [i \in 1..Len(results) |-> WithScore(results[i], One)]
                  ELSE results
             ELSE [i \in 1..Len(results) |->
                      WithScore(results[i],
                                RDiv(RSub(results[i].score, min_score), score_range))]

(* BaseRetriever._filter_by_threshold *)

FilterStrict(results, threshold) ==
    IF RLe(threshold, Zero) THEN results
    ELSE SelectSeq(results, LAMBDA r: RLt(threshold, r.score))

_filter_by_threshold(results, threshold) ==
    IF RLe(threshold, Zero) THEN results
    ELSE SelectSeq(results, LAMBDA r: RLe(threshold, r.score))

-----------------------------------------------------------------------------
(* BaseRetriever._rerank                                                    *)
(* The reranker is [loaded, raises, scores]: predict(pairs) raises, or      *)
(* returns the list scores (rerank_scores[i] is scores[i+1]).  A list       *)
(* shorter than the results makes rerank_scores[i] raise IndexError inside  *)
(* the update loop, after the earlier results were already overwritten in   *)
(* place; the except branch then returns that same list object.             *)

\* for i, result in enumerate(results): result.score = float(rerank_scores[i])
UpdateScores(results, scores) ==
    [i \in 1..Len(results) |->
        IF i <= Len(scores) THEN WithScore(results[i], scores[i]) ELSE results[i]]

RerankUnstable(reranker, results, top_k) ==
    IF ~reranker.loaded \/ results = <<>> THEN results
    ELSE IF reranker.raises THEN results
    ELSE IF Len(reranker.scores) < Len(results)
         THEN UpdateScores(results, reranker.scores)
         ELSE Slice(SortDescUnstable(UpdateScores(results, reranker.scores)), top_k)

_rerank(reranker, results, top_k) ==
    IF ~reranker.loaded \/ results = <<>> THEN results
    ELSE IF reranker.raises THEN results
    ELSE IF Len(reranker.scores) < Len(results)
         THEN UpdateScores(results, reranker.scores)
         ELSE Slice(SortDesc(UpdateScores(results, reranker.scores)), top_k)

-----------------------------------------------------------------------------
(* HybridRetriever._rrf_fusion and _weighted_fusion                         *)
(* self is [semantic_weight, keyword_weight, rrf_k].  The Python dict       *)
(* keyed by chunk_id is a sequence of entries in insertion order.           *)

DefaultRrfK == 60

\* position of chunk_id among the dict keys, 0 when absent
KeyIndex(map, chunk_id) ==
    IF \E i \in 1..Len(map) : map[i].chunk_id = chunk_id
    THEN CHOOSE i \in 1..Len(map) : map[i].chunk_id = chunk_id
    ELSE 0

\* for rank, result in enumerate(semantic_results, 1)
RECURSIVE RrfSemanticLoop(_, _, _, _)
RrfSemanticLoop(scores, semantic_results, rank, k) ==
    IF rank > Len(semantic_results) THEN scores
    ELSE LET result == semantic_results[rank]
             rrf_score == RDiv(One, R(k + rank))
             idx == KeyIndex(scores, result.chunk_id)
             next == IF idx = 0
                     THEN Append(scores, [chunk_id |-> result.chunk_id,
                                          result |-> result,
                                          semantic_score |-> rrf_score,
                                          keyword_score |-> Zero])
                     ELSE [scores EXCEPT ![idx].semantic_score = rrf_score]
         IN  RrfSemanticLoop(next, semantic_results, rank + 1, k)

\* for rank, result in enumerate(keyword_results, 1)
RECURSIVE RrfKeywordLoop(_, _, _, _)
RrfKeywordLoop(scores, keyword_results, rank, k) ==
    IF rank > Len(keyword_results) THEN scores
    ELSE LET result == keyword_results[rank]
             rrf_score == RDiv(One, R(k + rank))
             idx == KeyIndex(scores, result.chunk_id)
             next == IF idx = 0
                     THEN Append(scores, [chunk_id |-> result.chunk_id,
                                          result |-> result,
                                          semantic_score |-> Zero,
                                          keyword_score |-> rrf_score])
                     ELSE [scores EXCEPT ![idx].keyword_score = rrf_score]
         IN  RrfKeywordLoop(next, keyword_results, rank + 1, k)

\* the dict after both loops
RrfScores(self, semantic_results, keyword_results) ==
    RrfKeywordLoop(RrfSemanticLoop(<<>>, semantic_results, 1, self.rrf_k),
                   keyword_results, 1, self.rrf_k)

RrfFusionSemanticOnly(self, semantic_results, keyword_results, top_k) ==
    LET scores == RrfScores(self, semantic_results, keyword_results)
        fused_results ==
            [i \in 1..Len(scores) |->
                WithScore(scores[i].result,
                          RMul(self.semantic_weight, scores[i].semantic_score))]
    IN  Slice(SortDesc(fused_results), top_k)

RrfFusionRankBlind(self, semantic_results, keyword_results, top_k) ==
    LET scores == RrfScores(self, semantic_results, keyword_results)
        fused_results ==
            [i \in 1..Len(scores) |->
                WithScore(scores[i].result,
                          RAdd(RMul(self.semantic_weight,
                                    IF scores[i].semantic_score = Zero THEN Zero ELSE One),
                               RMul(self.keyword_weight,
                                    IF scores[i].keyword_score = Zero THEN Zero ELSE One)))]
    IN  Slice(SortDesc(fused_results), top_k)

_rrf_fusion(self, semantic_results, keyword_results, top_k) ==
    LET scores == RrfScores(self, semantic_results, keyword_results)
        fused_results ==
            [i \in 1..Len(scores) |->
                WithScore(scores[i].result,
                          RAdd(RMul(self.semantic_weight, scores[i].semantic_score),
                               RMul(self.keyword_weight, scores[i].keyword_score)))]
    IN  Slice(SortDesc(fused_results), top_k)

\* max-scaling of one source list: divide by the maximum when it is > 0
MaxScale(results) ==
    IF results = <<>> THEN results
    ELSE LET max_score == MaxScoreOf(results)
         IN  IF RLt(Zero, max_score)
             THEN [i \in 1..Len(results) |->
                      WithScore(results[i], RDiv(results[i].score, max_score))]
             ELSE results

\* for result in semantic_results
RECURSIVE WeightedSemanticLoop(_, _, _, _)
WeightedSemanticLoop(results_map, semantic_results, i, self) ==
    IF i > Len(semantic_results) THEN results_map
    ELSE LET result == semantic_results[i]
             weighted == RMul(result.score, self.semantic_weight)
             idx == KeyIndex(results_map, result.chunk_id)
             next == IF idx = 0
                     THEN Append(results_map, [chunk_id |-> result.chunk_id,
                                               result |-> result,
                                               semantic_score |-> weighted,
                                               keyword_score |-> Zero])
                     ELSE [results_map EXCEPT ![idx].semantic_score = weighted]
         IN  WeightedSemanticLoop(next, semantic_results, i + 1, self)

\* for result in keyword_results
RECURSIVE WeightedKeywordLoop(_, _, _, _)
WeightedKeywordLoop(results_map, keyword_results, i, self) ==
    IF i > Len(keyword_results) THEN results_map
    ELSE LET result == keyword_results[i]
             weighted == RMul(result.score, self.keyword_weight)
             idx == KeyIndex(results_map, result.chunk_id)
             next == IF idx = 0
                     THEN Append(results_map, [chunk_id |-> result.chunk_id,
                                               result |-> result,
                                               semantic_score |-> Zero,
                                               keyword_score |-> weighted])
                     ELSE [results_map EXCEPT ![idx].keyword_score = weighted]
         IN  WeightedKeywordLoop(next, keyword_results, i + 1, self)

_weighted_fusion(self, semantic_results, keyword_results, top_k) ==
    LET sem == MaxScale(semantic_results)
        kw == MaxScale(keyword_results)
        results_map == WeightedKeywordLoop(WeightedSemanticLoop(<<>>, sem, 1, self),
                                           kw, 1, self)
        fused_results ==
            [i \in 1..Len(results_map) |->
                WithScore(results_map[i].result,
                          RAdd(results_map[i].semantic_score,
                               results_map[i].keyword_score))]
    IN  Slice(SortDesc(fused_results), top_k)

-----------------------------------------------------------------------------
(* Inputs of the pure-function specifications *)

NoOp == [mode |-> "none"]
NoCall == [status |-> "none"]
NoIn == [fn |-> "none"]
NoOut == [fn |-> "none"]

ScoreSet == {Rat(i, 2) : i \in 0..(2 * MaxScore)}
UnitScores == {Zero, Rat(1, 2), One}
IntScores == {R(i) : i \in 0..MaxScore}
Weights == {Zero, Rat(1, 2), One}
PosWeights == {Rat(1, 2), One}
RrfKs == {0, 1, DefaultRrfK}
TopKs == 1..MaxTopK

\* result lists whose chunk_id is the position, scores drawn from S
ResultListsOver(S, n) ==
    UNION {{[i \in 1..m |-> [chunk_id |-> i, score |-> f[i]]] : f \in [1..m -> S]}
           : m \in 0..n}

ScoreSeqs(S, n) == UNION {[1..m -> S] : m \in 0..n}

\* chunk_id sequences without a repeated id
IdSeqs(n) ==
    UNION {{s \in [1..m -> 1..NumIds] : \A i, j \in 1..m : i # j => s[i] # s[j]}
           : m \in 0..n}

\* source lists without a repeated chunk_id, scores drawn from S
SourceLists(S, n) ==
    UNION {{[i \in 1..Len(ids) |-> [chunk_id |-> ids[i], score |-> f[i]]]
            : f \in [1..Len(ids) -> S]} : ids \in IdSeqs(n)}

Rerankers ==
    {[loaded |-> FALSE, raises |-> FALSE, scores |-> <<>>],
     [loaded |-> TRUE, raises |-> TRUE, scores |-> <<>>]}
    \cup {[loaded |-> TRUE, raises |-> FALSE, scores |-> sc]
          : sc \in ScoreSeqs(IntScores, MaxLen)}

Ids(results) == {results[i].chunk_id : i \in 1..Len(results)}
IdList(results) == [i \in 1..Len(results) |-> results[i].chunk_id]

-----------------------------------------------------------------------------
(* Specification of _normalize_scores as a pure function *)

InitNormalize ==
    /\ op = NoOp
    /\ last = NoCall
    /\ fin \in {[fn |-> "_normalize_scores", results |-> rs]
                : rs \in ResultListsOver(ScoreSet, MaxLen)}
    /\ fout = NoOut

ApplyNormalize ==
    /\ fin.fn = "_normalize_scores"
    /\ fout = NoOut
    /\ fout' = [fn |-> "_normalize_scores", results |-> _normalize_scores(fin.results)]
    /\ UNCHANGED <<op, last, fin>>

SpecNormalize == InitNormalize /\ [][ApplyNormalize]_vars

(* Specification of _rerank as a pure function *)

InitRerank ==
    /\ op = NoOp
    /\ last = NoCall
    /\ fin \in {[fn |-> "_rerank", results |-> rs, top_k |-> k, reranker |-> rr]
                : rs \in ResultListsOver(UnitScores, MaxLen), k \in TopKs,
                  rr \in Rerankers}
    /\ fout = NoOut

ApplyRerank ==
    /\ fin.fn = "_rerank"
    /\ fout = NoOut
    /\ fout' = [fn |-> "_rerank",
                results |-> _rerank(fin.reranker, fin.results, fin.top_k)]
    /\ UNCHANGED <<op, last, fin>>

SpecRerank == InitRerank /\ [][ApplyRerank]_vars

(* Specification of _rrf_fusion as a pure function.  Only the ranks of the  *)
(* source lists enter the fusion, so every raw score is 1.  The function    *)
(* reads a chunk_id only as a dictionary key, so the chunks of the semantic *)
(* list are named by their rank there, 1, 2, ..; the keyword list is any    *)
(* sequence of distinct ids, of those chunks and of others.                 *)

InitRrf ==
    /\ op = NoOp
    /\ last = NoCall
    /\ fin \in {[fn |-> "_rrf_fusion",
                 self |-> [semantic_weight |-> sw, keyword_weight |-> kw, rrf_k |-> k],
                 semantic_results |-> sem, keyword_results |-> kws, top_k |-> t]
                : sw \in Weights, kw \in Weights, k \in RrfKs,
                  sem \in ResultListsOver({One}, MaxFuseLen),
                  kws \in SourceLists({One}, MaxFuseLen), t \in TopKs}
    /\ fout = NoOut

ApplyRrf ==
    /\ fin.fn = "_rrf_fusion"
    /\ fout = NoOut
    /\ fout' = [fn |-> "_rrf_fusion",
                results |-> _rrf_fusion(fin.self, fin.semantic_results,
                                        fin.keyword_results, fin.top_k)]
    /\ UNCHANGED <<op, last, fin>>

SpecRrf == InitRrf /\ [][ApplyRrf]_vars

(* Specification of _weighted_fusion as a pure function *)

InitWeighted ==
    /\ op = NoOp
    /\ last = NoCall
    /\ fin \in {[fn |-> "_weighted_fusion",
                 self |-> [semantic_weight |-> sw, keyword_weight |-> kw,
                           rrf_k |-> DefaultRrfK],
                 semantic_results |-> sem, keyword_results |-> kws, top_k |-> t]
                : sw \in PosWeights, kw \in PosWeights,
                  sem \in SourceLists(IntScores, MaxWLen),
                  kws \in SourceLists(IntScores, MaxWLen), t \in TopKs}
    /\ fout = NoOut

ApplyWeighted ==
    /\ fin.fn = "_weighted_fusion"
    /\ fout = NoOut
    /\ fout' = [fn |-> "_weighted_fusion",
                results |-> _weighted_fusion(fin.self, fin.semantic_results,
                                             fin.keyword_results, fin.top_k)]
    /\ UNCHANGED <<op, last, fin>>

SpecWeighted == InitWeighted /\ [][ApplyWeighted]_vars

-----------------------------------------------------------------------------
(* Vocabulary of the properties *)

\* 1-based rank of chunk c in a source list, 0 when absent
RankIn(list, c) ==
    IF \E r \in 1..Len(list) : list[r].chunk_id = c
    THEN CHOOSE r \in 1..Len(list) : list[r].chunk_id = c
    ELSE 0

\* least and greatest score of a non-empty list, stated by quantifiers
LeastScore(list) ==
    CHOOSE s \in {list[i].score : i \in 1..Len(list)} :
        \A j \in 1..Len(list) : RLe(s, list[j].score)

GreatestScore(list) ==
    CHOOSE s \in {list[i].score : i \in 1..Len(list)} :
        \A j \in 1..Len(list) : RLe(list[j].score, s)

TwoDistinctScores(list) ==
    \E i, j \in 1..Len(list) : list[i].score # list[j].score

-----------------------------------------------------------------------------
(* C5: when the rerank step fails (the scorer raises, or its output cannot  *)
(* be applied to every result), _rerank returns the input list unchanged:   *)
(* same elements, same order, each with the score it had before the call.   *)
ClaimC5_RerankFailureReturnsInputUnchanged ==
    (/\ fout.fn = "_rerank"
     /\ fin.reranker.loaded
     /\ fin.results # <<>>
     /\ (fin.reranker.raises \/ Len(fin.reranker.scores) < Len(fin.results)))
    => fout.results = fin.results

(* C6: when the scorer returns one score per result, _rerank returns a      *)
(* sub-multiset of the input results, each with the scorer's output for it  *)
(* as score, in non-increasing score order with equal scores kept in input  *)
(* order, truncated to top_k.                                               *)
TheoremC6_RerankSuccess ==
    (/\ fout.fn = "_rerank"
     /\ fin.reranker.loaded
     /\ ~fin.reranker.raises
     /\ fin.results # <<>>
     /\ Len(fin.reranker.scores) = Len(fin.results))
    => LET inp == fin.results
           out == fout.results
           sc == fin.reranker.scores
           Before(a, b) == RLt(sc[b], sc[a]) \/ (sc[a] = sc[b] /\ a < b)
       IN  /\ Len(out) = Min2(fin.top_k, Len(inp))
           /\ \A i \in 1..Len(out) :
                 /\ out[i].chunk_id \in 1..Len(inp)
                 /\ out[i].score = sc[out[i].chunk_id]
           /\ \A i, j \in 1..Len(out) :
                 i < j => Before(out[i].chunk_id, out[j].chunk_id)
           /\ \A c \in (1..Len(inp)) \ Ids(out) :
                 \A i \in 1..Len(out) : Before(out[i].chunk_id, c)

WitnessC6_TieReorderedAndTruncated ==
    /\ fout.fn = "_rerank"
    /\ fin.reranker.loaded
    /\ ~fin.reranker.raises
    /\ Len(fin.results) = 3
    /\ fin.top_k = 2
    /\ fin.reranker.scores = <<R(0), R(1), R(1)>>
    /\ IdList(fout.results) = <<2, 3>>

TheoremC8_RrfFusion ==
    (fout.fn = "_rrf_fusion")
    => LET sem == fin.semantic_results
           kws == fin.keyword_results
           out == fout.results
           all == Ids(sem) \cup Ids(kws)
           Part(list, c) == IF RankIn(list, c) = 0 THEN Zero
                            ELSE Rat(1, fin.self.rrf_k + RankIn(list, c))
           Fused(c) == RAdd(RMul(fin.self.semantic_weight, Part(sem, c)),
                            RMul(fin.self.keyword_weight, Part(kws, c)))
           InsPos(c) == IF RankIn(sem, c) > 0 THEN RankIn(sem, c)
                        ELSE Len(sem) + RankIn(kws, c)
           Before(a, b) == \/ RLt(Fused(b), Fused(a))
                           \/ (Fused(a) = Fused(b) /\ InsPos(a) < InsPos(b))
       IN  /\ Len(out) = Min2(fin.top_k, Cardinality(all))
           /\ \A i \in 1..Len(out) :
                 /\ out[i].chunk_id \in all
                 /\ out[i].score = Fused(out[i].chunk_id)
           /\ \A i, j \in 1..Len(out) :
                 i < j => Before(out[i].chunk_id, out[j].chunk_id)
           /\ \A c \in all \ Ids(out) :
                 \A i \in 1..Len(out) : Before(out[i].chunk_id, c)
           /\ (/\ IdList(sem) = <<1, 2, 3>>
               /\ IdList(kws) = <<2, 3, 4>>
               /\ fin.self.semantic_weight = fin.self.keyword_weight
               /\ fin.self.semantic_weight # Zero
               /\ fin.self.rrf_k = 60)
              => out[1].chunk_id = 2

WitnessC8_ScenarioABCD ==
    /\ fout.fn = "_rrf_fusion"
    /\ IdList(fin.semantic_results) = <<1, 2, 3>>
    /\ IdList(fin.keyword_results) = <<2, 3, 4>>
    /\ fin.self.semantic_weight = Rat(1, 2)
    /\ fin.self.keyword_weight = Rat(1, 2)
    /\ fin.self.rrf_k = 60
    /\ fin.top_k = 2
    /\ IdList(fout.results) = <<2, 3>>

(* C9: RRF dominance.  If X is ranked 1st in both source lists, then with    *)
(* non-negative weights that are not both zero X is first in the fused       *)
(* output and its fused score is strictly greater than that of every other   *)
(* item.                                                                     *)
TheoremC9_RrfDominance ==
    (/\ fout.fn = "_rrf_fusion"
     /\ fin.semantic_results # <<>>
     /\ fin.keyword_results # <<>>
     /\ fin.semantic_results[1].chunk_id = fin.keyword_results[1].chunk_id
     /\ RLe(Zero, fin.self.semantic_weight)
     /\ RLe(Zero, fin.self.keyword_weight)
     /\ ~(fin.self.semantic_weight = Zero /\ fin.self.keyword_weight = Zero)
     /\ fin.self.rrf_k >= 0)
    => LET X == fin.semantic_results[1].chunk_id
           all == Ids(fin.semantic_results) \cup Ids(fin.keyword_results)
           full == _rrf_fusion(fin.self, fin.semantic_results, fin.keyword_results,
                               Cardinality(all))
       IN  /\ fout.results[1].chunk_id = X
           /\ Ids(full) = all
           /\ full[1].chunk_id = X
           /\ \A i \in 2..Len(full) : RLt(full[i].score, full[1].score)

WitnessC9_RunnerUpSecondInBoth ==
    /\ fout.fn = "_rrf_fusion"
    /\ Len(fin.semantic_results) = 3
    /\ Len(fin.keyword_results) = 3
    /\ fin.semantic_results[1].chunk_id = fin.keyword_results[1].chunk_id
    /\ fin.semantic_results[2].chunk_id = fin.keyword_results[2].chunk_id
    /\ fin.self.semantic_weight = Zero
    /\ fin.self.keyword_weight = One
    /\ fin.self.rrf_k = 0
    /\ fout.results[1].chunk_id = fin.semantic_results[1].chunk_id

(* C10: _weighted_fusion gives chunk c the score semantic_weight * n_sem(c) *)
(* + keyword_weight * n_kw(c), n being the min-max normalisation            *)
(* (s - min) / (max - min) of that source list's own raw scores, 0 for a    *)
(* chunk absent from the list.                                              *)
ClaimC10_WeightedFusionMinMax ==
    (/\ fout.fn = "_weighted_fusion"
     /\ fin.semantic_results # <<>> => TwoDistinctScores(fin.semantic_results)
     /\ fin.keyword_results # <<>> => TwoDistinctScores(fin.keyword_results))
    => LET sem == fin.semantic_results
           kws == fin.keyword_results
           out == fout.results
           MinMax(list, c) ==
               IF RankIn(list, c) = 0 THEN Zero
               ELSE RDiv(RSub(list[RankIn(list, c)].score, LeastScore(list)),
                         RSub(GreatestScore(list), LeastScore(list)))
       IN  \A i \in 1..Len(out) :
               out[i].score = RAdd(RMul(fin.self.semantic_weight, MinMax(sem, out[i].chunk_id)),
                                   RMul(fin.self.keyword_weight, MinMax(kws, out[i].chunk_id)))

-----------------------------------------------------------------------------
(* The retrieval pipeline: retriever objects, candidate sources, process    *)

\* Settings defaults (ability/config.py)
RERANK_ENABLED == FALSE
SIMILARITY_THRESHOLD == Zero
RETRIEVAL_CANDIDATE_MULTIPLIER == 2
TOP_K == 10

Modes == {"semantic", "keyword", "fulltext", "text_match", "phrase_match", "hybrid"}

(* A query is one of: None ("none"), a non-string ("int"), "" ("empty"),    *)
(* whitespace only ("blank"), a non-blank string without any token          *)
(* ("punct"), a string with tokens ("text").                                *)
QueryKinds == {"none", "int", "empty", "blank", "punct", "text"}

IsStr(query) == query \notin {"none", "int"}
StripNonEmpty(query) == query \in {"punct", "text"}
HasTokens(query) == query = "text"

NoSub == [mode |-> "none"]

\* BaseRetriever.__init__ (and the subclass constructors) with a config
LeafRetriever(mode, config) ==
    [mode |-> mode,
     top_k |-> config.top_k,
     rerank_enabled |-> config.rerank_enabled,
     similarity_threshold |-> config.similarity_threshold,
     candidate_multiplier |-> RETRIEVAL_CANDIDATE_MULTIPLIER,
     reranker |-> FALSE,
     initialized |-> FALSE,
     fusion_method |-> config.fusion_method,
     semantic_weight |-> Rat(1, 2),
     keyword_weight |-> Rat(1, 2),
     rrf_k |-> DefaultRrfK,
     semantic_retriever |-> NoSub,
     keyword_retriever |-> NoSub]

\* the config {} : every key takes its default
EmptyConfig ==
    [top_k |-> TOP_K, rerank_enabled |-> RERANK_ENABLED,
     similarity_threshold |-> SIMILARITY_THRESHOLD, fusion_method |-> "rrf"]

\* HybridRetriever.__init__: semantic_config and keyword_config default to {}
\* HybridRetriever.__init__ given its semantic_config and keyword_config
HybridRetriever(config, semantic_config, keyword_config) ==
    [LeafRetriever("hybrid", config) EXCEPT
        !.semantic_retriever = LeafRetriever("semantic", semantic_config),
        !.keyword_retriever = LeafRetriever("keyword", keyword_config)]

NewRetriever(mode, config) ==
    IF mode = "hybrid"
    THEN HybridRetriever(config, EmptyConfig, EmptyConfig)
    ELSE LeafRetriever(mode, config)

\* BaseRetriever._initialize: load the cross-encoder when reranking is on
InitializeBase(o, load_ok) ==
    IF o.initialized THEN o
    ELSE IF ~o.rerank_enabled THEN [o EXCEPT !.initialized = TRUE]
    ELSE IF load_ok THEN [o EXCEPT !.reranker = TRUE, !.initialized = TRUE]
    ELSE [o EXCEPT !.rerank_enabled = FALSE, !.initialized = TRUE]

\* BaseOperator.initialize with HybridRetriever._initialize
initialize(o, load_ok) ==
    IF o.initialized THEN o
    ELSE IF o.mode = "hybrid"
    THEN [InitializeBase(o, load_ok) EXCEPT
             !.semantic_retriever = InitializeBase(@, load_ok),
             !.keyword_retriever = InitializeBase(@, load_ok)]
    ELSE InitializeBase(o, load_ok)

\* BaseRetriever.validate_input
validate_input(query) ==
    IF query = "none" THEN FALSE
    ELSE IF ~IsStr(query) THEN FALSE
    ELSE IF ~StripNonEmpty(query) THEN FALSE
    ELSE TRUE

(* A storage outcome is [kind, hits]: "ok" with the hits, "value_error"     *)
(* (the collection does not exist), "error" (any other exception of the     *)
(* storage client: connection, load, search or query failure).  A hit is    *)
(* [id, score]; for the matching modes score stands for the match score     *)
(* the retriever computes from the hit's content.                           *)
HitResult(hit) == [chunk_id |-> hit.id, score |-> hit.score]

\* SemanticRetriever._retrieve, the loop over search_results
SemanticResults(hits) ==
    LET kept == SelectSeq(hits, LAMBDA h: h.id # 0)
    IN  [i \in 1..Len(kept) |-> HitResult(kept[i])]

\* Keyword/FullText/TextMatch/PhraseMatch._retrieve, scoring, sort, top_k
ScoredResults(hits, top_k) ==
    LET kept == SelectSeq(hits, LAMBDA h: RLt(Zero, h.score))
    IN  Slice(SortDesc([i \in 1..Len(kept) |-> HitResult(kept[i])]), top_k)

RetrieveOk(results, sem_calls, kw_calls) ==
    [raised |-> FALSE, error |-> "", results |-> results,
     sem_calls |-> sem_calls, kw_calls |-> kw_calls, sub_stages |-> <<>>]

RetrieveRaised(error, sem_calls, kw_calls) ==
    [raised |-> TRUE, error |-> error, results |-> <<>>,
     sem_calls |-> sem_calls, kw_calls |-> kw_calls, sub_stages |-> <<>>]

\* SemanticRetriever._retrieve
SemanticRetrieve(query, top_k, kwargs, env) ==
    IF ~kwargs.has_vector THEN RetrieveRaised("ValueError", 0, 0)
    ELSE IF env.sem.kind = "ok" THEN RetrieveOk(SemanticResults(env.sem.hits), 1, 0)
    ELSE IF env.sem.kind = "value_error" THEN RetrieveOk(<<>>, 1, 0)
    ELSE RetrieveRaised("StorageError", 1, 0)

\* KeywordRetriever._retrieve and FullTextRetriever._retrieve
TokenRetrieve(query, top_k, kwargs, env) ==
    IF ~HasTokens(query) THEN RetrieveOk(<<>>, 0, 0)
    ELSE IF env.kw.kind = "ok" THEN RetrieveOk(ScoredResults(env.kw.hits, top_k), 0, 1)
    ELSE RetrieveOk(<<>>, 0, 1)

\* TextMatchRetriever._retrieve and PhraseMatchRetriever._retrieve
MatchRetrieve(query, top_k, kwargs, env) ==
    IF ~StripNonEmpty(query) THEN RetrieveOk(<<>>, 0, 0)
    ELSE IF env.kw.kind = "ok" THEN RetrieveOk(ScoredResults(env.kw.hits, top_k), 0, 1)
    ELSE RetrieveOk(<<>>, 0, 1)

\* the scorer a sub-retriever's reranker would be, were it ever invoked
SubScorer == [raises |-> FALSE, scores |-> [i \in 1..8 |-> R(i)]]

BlankRun ==
    [status |-> "raised", error |-> "", ret |-> <<>>, top_k |-> 0,
     rerank_enabled |-> FALSE, threshold |-> Zero, candidate_k |-> 0,
     retrieve_calls |-> 0, sem_calls |-> 0, kw_calls |-> 0, rerank_pairs |-> 0,
     candidates |-> <<>>, filtered |-> <<>>, reranked |-> <<>>,
     stages |-> <<>>, sub_stages |-> <<>>]

NoTruncate(results, top_k) == results

\* results = results[:top_k]
Truncate(results, top_k) == Slice(results, top_k)

\* candidate_k = top_k * candidate_multiplier if rerank_enabled else top_k
CandidateK(self, top_k, rerank_enabled) ==
    IF rerank_enabled THEN top_k * self.candidate_multiplier ELSE top_k

\* kwargs.pop("rerank_enabled", ..), kwargs.pop("similarity_threshold", ..):
\* the kwargs that process hands on to _retrieve no longer hold the two keys
Popped(kwargs) ==
    [kwargs EXCEPT !.has_rerank = FALSE, !.rerank_enabled = FALSE,
                   !.has_threshold = FALSE]

SubKwargsPassedOn(kwargs) == kwargs

\* sub_kwargs = {**kwargs, "rerank_enabled": False, "similarity_threshold": 0.0}
SubKwargs(kwargs) ==
    [kwargs EXCEPT !.has_rerank = TRUE, !.rerank_enabled = FALSE,
                   !.has_threshold = TRUE, !.similarity_threshold = Zero]

RECURSIVE process(_, _, _, _, _)
RECURSIVE _retrieve(_, _, _, _, _)

\* BaseRetriever.process from the candidates r that _retrieve gave: normalize,
\* filter, rerank, truncate
Staged(self, top_k, rerank_enabled, similarity_threshold, candidate_k, env, r) ==
    LET head == [BlankRun EXCEPT !.top_k = top_k, !.rerank_enabled = rerank_enabled,
                                 !.threshold = similarity_threshold,
                                 !.candidate_k = candidate_k, !.retrieve_calls = 1,
                                 !.sem_calls = r.sem_calls, !.kw_calls = r.kw_calls,
                                 !.sub_stages = r.sub_stages,
                                 !.stages = <<"retrieve">>]
    IN
    IF r.raised THEN [head EXCEPT !.error = r.error]
    ELSE
    LET do_norm == r.results # <<>>
        normalized == IF do_norm THEN _normalize_scores(r.results) ELSE r.results
        do_filter == RLt(Zero, similarity_threshold)
        filtered == IF do_filter
                    THEN _filter_by_threshold(normalized, similarity_threshold)
                    ELSE normalized
        do_rerank == rerank_enabled /\ self.reranker /\ filtered # <<>>
        reranked == IF do_rerank
                    THEN _rerank([loaded |-> self.reranker,
                                  raises |-> env.scorer.raises,
                                  scores |-> env.scorer.scores], filtered, top_k)
                    ELSE filtered
    IN  [head EXCEPT
            !.status = "returned",
            !.ret = Truncate(reranked, top_k),
            !.candidates = r.results,
            !.filtered = filtered,
            !.reranked = reranked,
            !.rerank_pairs = IF do_rerank THEN Len(filtered) ELSE 0,
            !.stages = <<"retrieve">>
                       \o (IF do_norm THEN <<"normalize">> ELSE <<>>)
                       \o (IF do_filter THEN <<"filter">> ELSE <<>>)
                       \o (IF do_rerank THEN <<"rerank">> ELSE <<>>)
                       \o <<"truncate">>]

\* BaseRetriever.process
process(self, query, top_k_arg, kwargs, env) ==
    LET top_k == IF top_k_arg = 0 THEN self.top_k ELSE top_k_arg
    IN
    IF ~IsStr(query)
    THEN [BlankRun EXCEPT !.error = "TypeError", !.top_k = top_k]
    ELSE
    LET rerank_enabled == IF kwargs.has_rerank THEN kwargs.rerank_enabled
                          ELSE self.rerank_enabled
        similarity_threshold == IF kwargs.has_threshold THEN kwargs.similarity_threshold
                                ELSE self.similarity_threshold
        candidate_k == CandidateK(self, top_k, rerank_enabled)
    IN  Staged(self, top_k, rerank_enabled, similarity_threshold, candidate_k, env,
               _retrieve(self, query, candidate_k, Popped(kwargs), env))

\* the _retrieve of each retriever class; HybridRetriever._retrieve inline
_retrieve(self, query, top_k, kwargs, env) ==
    IF self.mode = "semantic" THEN SemanticRetrieve(query, top_k, kwargs, env)
    ELSE IF self.mode \in {"keyword", "fulltext"}
         THEN TokenRetrieve(query, top_k, kwargs, env)
    ELSE IF self.mode \in {"text_match", "phrase_match"}
         THEN MatchRetrieve(query, top_k, kwargs, env)
    ELSE
    LET candidate_k == top_k * 2
        sub_kwargs == SubKwargs(kwargs)
        sub_env == [env EXCEPT !.scorer = SubScorer]
        sem == process(self.semantic_retriever, query, candidate_k, sub_kwargs, sub_env)
    IN
    IF sem.status = "raised" THEN RetrieveRaised(sem.error, sem.sem_calls, 0)
    ELSE
    LET kws == process(self.keyword_retriever, query, candidate_k, sub_kwargs, sub_env)
    IN
    IF kws.status = "raised"
    THEN RetrieveRaised(kws.error, sem.sem_calls, kws.kw_calls)
    ELSE
    LET fused_results ==
            IF self.fusion_method = "weighted"
            THEN _weighted_fusion(self, sem.ret, kws.ret, top_k)
            ELSE _rrf_fusion(self, sem.ret, kws.ret, top_k)
    IN  [RetrieveOk(fused_results, sem.sem_calls, kws.kw_calls)
            EXCEPT !.sub_stages = <<sem.stages, kws.stages>>]

\* BaseOperator.__call__ on an initialized retriever
__call__(self, query, top_k_arg, kwargs, env) ==
    IF ~validate_input(query)
    THEN [BlankRun EXCEPT !.error = "ValueError"]
    ELSE process(self, query, top_k_arg, kwargs, env)

-----------------------------------------------------------------------------
(* Inputs of the pipeline specification *)

\* configs a retriever is constructed with
Configs ==
    {[top_k |-> CfgTopK, rerank_enabled |-> FALSE, similarity_threshold |-> Rat(1, 2),
      fusion_method |-> "rrf"],
     [top_k |-> CfgTopK, rerank_enabled |-> TRUE, similarity_threshold |-> Zero,
      fusion_method |-> "rrf"]}

\* a semantic_config / keyword_config that enables the filter and the reranker
SubConfig ==
    [top_k |-> CfgTopK, rerank_enabled |-> TRUE, similarity_threshold |-> Rat(1, 2),
     fusion_method |-> "rrf"]

Retrievers ==
    {NewRetriever(m, c) : m \in Modes, c \in Configs}
    \cup {HybridRetriever([c EXCEPT !.fusion_method = "weighted"], SubConfig, SubConfig)
          : c \in Configs}

\* top_k arguments; 0 stands for None (top_k or self.top_k)
TopKArgs == 0..(MaxTopK - 1)

Kwargs(mode) ==
    {[has_rerank |-> hr, rerank_enabled |-> re, has_threshold |-> ht,
      similarity_threshold |-> th, has_vector |-> hv]
     : hr \in BOOLEAN, re \in BOOLEAN, ht \in BOOLEAN, th \in {One},
       hv \in (IF mode \in {"semantic", "hybrid"} THEN BOOLEAN ELSE {FALSE})}
    \ {k \in [has_rerank : BOOLEAN, rerank_enabled : BOOLEAN, has_threshold : BOOLEAN,
              similarity_threshold : {One}, has_vector : BOOLEAN]
         : ~k.has_rerank /\ k.rerank_enabled}

\* the raw scores of the hits the storage returns
HitScores == {Zero, One, R(2)}

\* the raw scores of the hits a hybrid's two sources return: the fusion is
\* explored on a zero score and a score above 1
FusedHitScores == {Zero, R(2)}

HitScoresOf(self) == IF self.mode = "hybrid" THEN FusedHitScores ELSE HitScores

HitLists(n, bases, scores) ==
    UNION {{[i \in 1..m |-> [id |-> i - 1 + b, score |-> f[i]]]
            : f \in [1..m -> scores], b \in bases} : m \in 0..n}

NoStorage == [kind |-> "unused", hits |-> <<>>]
NoScorer == [raises |-> FALSE, scores |-> <<>>]

StorageOutcomes(n, bases, scores) ==
    {[kind |-> "value_error", hits |-> <<>>], [kind |-> "error", hits |-> <<>>]}
    \cup {[kind |-> "ok", hits |-> h] : h \in HitLists(n, bases, scores)}

RerankScores == {Zero, One}

ScorerOutcomes(n) ==
    {[raises |-> TRUE, scores |-> <<>>]}
    \cup {[raises |-> FALSE, scores |-> sc] : sc \in ScoreSeqs(RerankScores, n)}

ProbeHits == [kind |-> "ok", hits |-> <<[id |-> 1, score |-> One]>>]
ProbeEnv == [sem |-> ProbeHits, kw |-> ProbeHits, scorer |-> NoScorer]

\* the run of one entry path on a retriever
Exec(path, self, query, top_k_arg, kwargs, env) ==
    IF path = "__call__" THEN __call__(self, query, top_k_arg, kwargs, env)
    ELSE process(self, query, top_k_arg, kwargs, env)

\* the longest hit list drawn: MaxHits for a direct process call on a
\* single-source retriever, MaxSubHits elsewhere
HitBound(path, self) ==
    IF path = "process" /\ self.mode # "hybrid" THEN MaxHits ELSE MaxSubHits

\* the first id of the hits a vector search returns: a hit list that starts
\* at 0 has a hit without an id; a hybrid's fusion is explored on hits with ids
HitBases(self) ==
    IF self.mode = "hybrid" THEN {1} ELSE {0, 1}

RECURSIVE Runs(_, _, _, _, _, _, _)

(* The call observed: last' is the observation of one entry path on a       *)
(* retriever, under collaborator outcomes the run can see.  An outcome is   *)
(* drawn only for a collaborator the run invokes, and the run so far tells  *)
(* which one is consulted next: the vector search, then the keyword-side    *)
(* query, then the scorer.                                                  *)
Drawn(stage, path, self, query, top_k_arg, kwargs, env, run) ==
    IF stage = "sem"
    THEN \E se \in IF run.sem_calls > 0
                   THEN StorageOutcomes(HitBound(path, self), HitBases(self), HitScoresOf(self))
                   ELSE {NoStorage} :
             Runs("kw", path, self, query, top_k_arg, kwargs, [env EXCEPT !.sem = se])
    ELSE IF stage = "kw"
    THEN \E ke \in IF run.kw_calls > 0
                   THEN StorageOutcomes(HitBound(path, self), {1}, HitScoresOf(self))
                   ELSE {NoStorage} :
             Runs("scorer", path, self, query, top_k_arg, kwargs, [env EXCEPT !.kw = ke])
    ELSE IF stage = "scorer"
    THEN \E sc \in IF run.rerank_pairs = 0 THEN {NoScorer}
                   ELSE ScorerOutcomes(run.rerank_pairs) :
             Runs("done", path, self, query, top_k_arg, kwargs, [env EXCEPT !.scorer = sc])
    ELSE last' = [status |-> run.status, path |-> path, self |-> self, query |-> query,
                  top_k_arg |-> top_k_arg, kwargs |-> kwargs, env |-> env, run |-> run]

Runs(stage, path, self, query, top_k_arg, kwargs, env) ==
    Drawn(stage, path, self, query, top_k_arg, kwargs, env,
          Exec(path, self, query, top_k_arg, kwargs, env))

\* a call on an entry path, observed
Observe(path, self, query, top_k_arg, kwargs) ==
    Runs("sem", path, self, query, top_k_arg, kwargs, ProbeEnv)

-----------------------------------------------------------------------------
(* The pipeline specification *)

\* op is the retriever object the application holds, NoOp when it holds none
\* and goes through RetrieverService, which builds a retriever per request.
Init ==
    /\ op \in Retrievers \cup {NoOp}
    /\ last = NoCall
    /\ fin = NoIn
    /\ fout = NoOut

\* retriever.initialize()
Initialize ==
    /\ op # NoOp
    /\ last = NoCall
    /\ ~op.initialized
    /\ \E load_ok \in BOOLEAN : op' = initialize(op, load_ok)
    /\ UNCHANGED <<last, fin, fout>>

\* retriever(query, top_k=..., **kwargs)
CallOperator ==
    /\ op # NoOp
    /\ last = NoCall
    /\ \E load_ok \in (IF op.initialized \/ ~op.rerank_enabled THEN {TRUE} ELSE BOOLEAN),
          query \in QueryKinds, top_k_arg \in TopKArgs, kwargs \in Kwargs(op.mode) :
          LET self == initialize(op, load_ok)
          IN  /\ op' = self
              /\ Observe("__call__", self, query, top_k_arg, kwargs)
    /\ UNCHANGED <<fin, fout>>

\* retriever.process(query, top_k, tenant_id, **kwargs)
CallProcess ==
    /\ op # NoOp
    /\ last = NoCall
    /\ \E query \in QueryKinds, top_k_arg \in TopKArgs, kwargs \in Kwargs(op.mode) :
          Observe("process", op, query, top_k_arg, kwargs)
    /\ UNCHANGED <<op, fin, fout>>

\* the config RetrieverService._build_retriever_config gives the factory
ServiceConfig(request) ==
    [top_k |-> TOP_K,
     rerank_enabled |-> IF request.has_rerank THEN request.rerank_enabled
                        ELSE RERANK_ENABLED,
     similarity_threshold |-> IF request.has_threshold THEN request.similarity_threshold
                              ELSE SIMILARITY_THRESHOLD,
     fusion_method |-> "rrf"]

\* RetrieverService.<mode>_search(request): the query is a str field.  The
\* service neither reads nor writes a retriever held by the application, so
\* its runs are explored from the states without one.
ServiceSearch ==
    /\ op = NoOp
    /\ last = NoCall
    /\ \E mode \in Modes, query \in {q \in QueryKinds : IsStr(q)},
          top_k_arg \in TopKArgs, kwargs \in Kwargs("keyword"), load_ok \in BOOLEAN :
          LET request == [kwargs EXCEPT !.has_vector = mode \in {"semantic", "hybrid"}]
              retriever == initialize(NewRetriever(mode, ServiceConfig(request)), load_ok)
              top_k == IF top_k_arg = 0 THEN TOP_K ELSE top_k_arg
          IN  Observe("service", retriever, query, top_k, request)
    /\ UNCHANGED <<op, fin, fout>>

\* the caller takes the outcome of the call; the retriever is ready again
TakeOutcome ==
    /\ last # NoCall
    /\ last' = NoCall
    /\ UNCHANGED <<op, fin, fout>>

Next == Initialize \/ CallOperator \/ CallProcess \/ ServiceSearch \/ TakeOutcome

Spec == Init /\ [][Next]_vars

-----------------------------------------------------------------------------
(* Properties of the pipeline *)

Called == last.status # "none"

\* the top_k, rerank switch and threshold in force for the observed call
CallTopK == IF last.top_k_arg = 0 THEN last.self.top_k ELSE last.top_k_arg

CallRerankEnabled ==
    IF last.kwargs.has_rerank THEN last.kwargs.rerank_enabled
    ELSE last.self.rerank_enabled

CallThreshold ==
    IF last.kwargs.has_threshold THEN last.kwargs.similarity_threshold
    ELSE last.self.similarity_threshold

\* the elements of list with score >= t, in order
AtLeast(list, t) == SelectSeq(list, LAMBDA r: ~RLt(r.score, t))

ExampleScores ==
    <<[chunk_id |-> 1, score |-> One], [chunk_id |-> 2, score |-> Rat(3, 5)],
      [chunk_id |-> 3, score |-> Rat(2, 5)], [chunk_id |-> 4, score |-> Zero]>>

\* the storage collaborator raised while a candidate source was using it
StorageFailed ==
    \/ (last.run.sem_calls > 0 /\ last.env.sem.kind \in {"value_error", "error"})
    \/ (last.run.kw_calls > 0 /\ last.env.kw.kind \in {"value_error", "error"})

(* C1: a process call with a valid query that returns, returns the first    *)
(* top_k elements of rerank(filter_t(normalize(C))): C is requested once,   *)
(* with candidate_k = top_k * candidate_multiplier when reranking is        *)
(* enabled for the call (per-call value over the configured one), else      *)
(* top_k; normalize is skipped for an empty C; filter_t keeps in order the  *)
(* elements with score >= t when t > 0 and is the identity otherwise        *)
(* (t = 0.5 on [1.0, 0.6, 0.4, 0.0] gives [1.0, 0.6]); rerank is applied    *)
(* only when enabled, a reranker is loaded and the list is non-empty.       *)
TheoremC1_ProcessIsThePipeline ==
    (Called /\ last.status = "returned" /\ validate_input(last.query))
    => LET run == last.run
           C == run.candidates
           normalized == IF C = <<>> THEN C ELSE _normalize_scores(C)
           filtered == IF RLt(Zero, CallThreshold) THEN AtLeast(normalized, CallThreshold)
                       ELSE normalized
           applies == CallRerankEnabled /\ last.self.reranker /\ filtered # <<>>
           reranked == IF applies
                       THEN _rerank([loaded |-> TRUE, raises |-> last.env.scorer.raises,
                                     scores |-> last.env.scorer.scores],
                                    filtered, CallTopK)
                       ELSE filtered
       IN  /\ run.retrieve_calls = 1
           /\ run.candidate_k = IF CallRerankEnabled
                                THEN CallTopK * last.self.candidate_multiplier
                                ELSE CallTopK
           /\ run.ret = SubSeq(reranked, 1, Min2(CallTopK, Len(reranked)))
           /\ run.stages = <<"retrieve">>
                           \o (IF C = <<>> THEN <<>> ELSE <<"normalize">>)
                           \o (IF RLt(Zero, CallThreshold) THEN <<"filter">> ELSE <<>>)
                           \o (IF applies THEN <<"rerank">> ELSE <<>>)
                           \o <<"truncate">>
           /\ IdList(_filter_by_threshold(ExampleScores, Rat(1, 2))) = <<1, 2>>

WitnessC1_AllStagesRun ==
    /\ Called
    /\ last.status = "returned"
    /\ last.query = "text"
    /\ last.run.stages = <<"retrieve", "normalize", "filter", "rerank", "truncate">>
    /\ ~last.env.scorer.raises
    /\ Len(last.run.candidates) = 2
    /\ Len(last.run.filtered) = 2
    /\ Len(last.run.ret) = 1
    /\ last.run.ret[1].chunk_id = last.run.filtered[2].chunk_id

(* C2: a process call with top_k >= 1 returns at most top_k elements,       *)
(* whatever the candidate source returned and whether reranking is          *)
(* disabled, succeeds or fails; the rerank step never lengthens the list.   *)
TheoremC2_AtMostTopK ==
    (Called /\ last.status = "returned" /\ CallTopK >= 1)
    => /\ Len(last.run.ret) <= CallTopK
       /\ Len(last.run.reranked) <= Len(last.run.filtered)

WitnessC2_TruncatedAfterFailedRerank ==
    /\ Called
    /\ last.status = "returned"
    /\ last.run.rerank_pairs = 2
    /\ last.env.scorer.raises
    /\ CallTopK = 1
    /\ Len(last.run.reranked) = 2
    /\ Len(last.run.ret) = 1

(* C3: on every entry path (__call__, a direct process call, the            *)
(* RetrieverService search functions) a query that is not a string, is      *)
(* empty or is whitespace-only is rejected with an invalid-input error      *)
(* before the candidate source and the storage collaborator are invoked.    *)
ClaimC3_InvalidQueryRejectedOnEveryPath ==
    (Called /\ ~validate_input(last.query))
    => /\ last.status = "raised"
       /\ last.run.error = "ValueError"
       /\ last.run.retrieve_calls = 0
       /\ last.run.sem_calls + last.run.kw_calls = 0

(* C4: if the storage collaborator raises while a candidate source is       *)
(* searching or querying, the pipeline does not raise: process returns an   *)
(* empty list in every single-source mode, and a hybrid call does not       *)
(* raise.                                                                   *)
ClaimC4_StorageFailureGivesEmptyList ==
    (Called /\ StorageFailed)
    => /\ last.status = "returned"
       /\ last.self.mode # "hybrid" => last.run.ret = <<>>

\* how many times stage occurs in a stage list
Times(stages, stage) == Cardinality({i \in 1..Len(stages) : stages[i] = stage})

(* C11: in hybrid mode, whatever rerank_enabled and similarity_threshold    *)
(* are configured (on the hybrid retriever, in semantic_config or           *)
(* keyword_config) or given per call, no sub-retrieval applies the          *)
(* threshold filter or invokes a reranker; the filter and the reranker are  *)
(* each applied at most once per call, by the outer pipeline.               *)
TheoremC11_SubRetrievalsUnfilteredUnranked ==
    (Called /\ last.self.mode = "hybrid")
    => /\ \A i \in 1..Len(last.run.sub_stages) :
              /\ Times(last.run.sub_stages[i], "filter") = 0
              /\ Times(last.run.sub_stages[i], "rerank") = 0
       /\ Times(last.run.stages, "filter") <= 1
       /\ Times(last.run.stages, "rerank") <= 1
       /\ last.run.rerank_pairs <= Len(last.run.filtered)

WitnessC11_StrictSubConfigsOuterStagesOnce ==
    /\ Called
    /\ last.self.mode = "hybrid"
    /\ last.self.semantic_retriever.rerank_enabled
    /\ last.self.semantic_retriever.reranker
    /\ last.self.keyword_retriever.reranker
    /\ RLt(Zero, last.self.keyword_retriever.similarity_threshold)
    /\ last.status = "returned"
    /\ last.run.sub_stages = <<(<<"retrieve", "normalize", "truncate">>),
                               (<<"retrieve", "normalize", "truncate">>)>>
    /\ Times(last.run.stages, "filter") = 1
    /\ Times(last.run.stages, "rerank") = 1

-----------------------------------------------------------------------------
(* Text: a Python str is a sequence of characters *)

Chars == {"a", " ", "\n", ".", "#"}

\* the characters of the alphabet that str.strip() removes and \s matches
Whitespace == {" ", "\n"}

\* of the delimiters 。 . ！ ! ？ ? \n searched by the window loops, those in
\* the alphabet
SentenceDelimiters == {".", "\n"}

\* Python's normalisation of a slice bound for a str of length n
PyIndex(i, n) == IF i < 0 THEN Max2(n + i, 0) ELSE Min2(i, n)

\* text[start:end]
PySlice(text, start, end) ==
    LET s == PyIndex(start, Len(text))
        e == PyIndex(end, Len(text))
    IN  IF s < e THEN SubSeq(text, s + 1, e) ELSE <<>>

RECURSIVE lstrip(_)
lstrip(text) ==
    IF text # <<>> /\ Head(text) \in Whitespace THEN lstrip(Tail(text)) ELSE text

RECURSIVE rstrip(_)
rstrip(text) ==
    IF text # <<>> /\ text[Len(text)] \in Whitespace
    THEN rstrip(SubSeq(text, 1, Len(text) - 1))
    ELSE text

\* text.strip()
strip(text) == rstrip(lstrip(text))

\* text.find(sep) for a one-character sep, 1-based; 0 when absent
RECURSIVE FindChar(_, _, _)
FindChar(text, sep, i) ==
    IF i > Len(text) THEN 0
    ELSE IF text[i] = sep THEN i
    ELSE FindChar(text, sep, i + 1)

\* text.split(sep) for a one-character sep
RECURSIVE split(_, _)
split(text, sep) ==
    LET i == FindChar(text, sep, 1)
    IN  IF i = 0 THEN <<text>>
        ELSE <<SubSeq(text, 1, i - 1)>> \o split(SubSeq(text, i + 1, Len(text)), sep)

\* sep.join(lines)
RECURSIVE join(_, _)
join(lines, sep) ==
    IF lines = <<>> THEN <<>>
    ELSE IF Len(lines) = 1 THEN lines[1]
    ELSE lines[1] \o <<sep>> \o join(Tail(lines), sep)

\* [line.strip() for line in lines if line.strip()]
RECURSIVE StrippedNonEmpty(_)
StrippedNonEmpty(lines) ==
    IF lines = <<>> THEN <<>>
    ELSE IF strip(Head(lines)) = <<>> THEN StrippedNonEmpty(Tail(lines))
    ELSE <<strip(Head(lines))>> \o StrippedNonEmpty(Tail(lines))

remove_empty_lines(text) == join(StrippedNonEmpty(split(text, "\n")), "\n")

\* the whitespace_pattern arguments of the model: None (the default \s+) and
\* a pattern that matches runs of blanks only, so that line breaks survive
NoPattern == "None"
BlankPattern == " +"
PatternClass(whitespace_pattern) ==
    IF whitespace_pattern = NoPattern THEN Whitespace ELSE {" "}

\* re.sub(pattern, " ", text) for a pattern matching the maximal runs of cls
RECURSIVE ReSub(_, _, _)
ReSub(cls, text, in_run) ==
    IF text = <<>> THEN <<>>
    ELSE IF Head(text) \in cls
         THEN (IF in_run THEN <<>> ELSE <<" ">>) \o ReSub(cls, Tail(text), TRUE)
         ELSE <<Head(text)>> \o ReSub(cls, Tail(text), FALSE)

clean_text(text, whitespace_pattern) ==
    ReSub(PatternClass(whitespace_pattern), strip(text), FALSE)

\* BaseChunker._clean_text
_clean_text(text, kwargs) ==
    clean_text(remove_empty_lines(text), kwargs.whitespace_pattern)

-----------------------------------------------------------------------------
(* Chunks and chunkers *)

\* Optional[int]: None is the empty list
None == <<>>
Some(v) == <<v>>

\* what a call does: it returns ret, raises error, or (status "diverged")
\* never comes back; warned tells whether the iteration guard logged its
\* warning, text is the cleaned text the offsets of ret index into
Returned(ret, warned, text) ==
    [status |-> "returned", error |-> "", ret |-> ret, warned |-> warned, text |-> text]
Raised(error) ==
    [status |-> "raised", error |-> error, ret |-> <<>>, warned |-> FALSE, text |-> <<>>]
Diverged(text) ==
    [status |-> "diverged", error |-> "", ret |-> <<>>, warned |-> FALSE, text |-> text]

Chunk(content, chunk_index, start_index, end_index, metadata, parent_chunk_id) ==
    [content |-> content,
     chunk_index |-> chunk_index,
     start_index |-> start_index,
     end_index |-> end_index,
     metadata |-> metadata,
     parent_chunk_id |-> parent_chunk_id]

\* dict.get(key, default) on a config whose absent keys hold None
get_config(config, key, default) ==
    IF config[key] = None THEN default ELSE config[key][1]

DEFAULT_CHUNK_SIZE == 512
DEFAULT_CHUNK_OVERLAP == 50
MIN_CONTENT_RATIO == Rat(1, 2)

\* BaseChunker.__init__
BaseChunker(strategy, config) ==
    [strategy |-> strategy,
     _initialized |-> FALSE,
     chunk_size |-> get_config(config, "chunk_size", DEFAULT_CHUNK_SIZE),
     chunk_overlap |-> get_config(config, "chunk_overlap", DEFAULT_CHUNK_OVERLAP)]

FixedChunker(config) ==
    BaseChunker("fixed", config) @@
    [use_tokens |-> get_config(config, "use_tokens", FALSE),
     min_content_ratio |-> get_config(config, "min_content_ratio", MIN_CONTENT_RATIO)]

\* max(chunk_content.rfind(d) for the delimiters d) over chunk_content[:i],
\* 0-based, -1 when absent
RECURSIVE sentence_end(_, _)
sentence_end(chunk_content, i) ==
    IF i = 0 THEN -1
    ELSE IF chunk_content[i] \in SentenceDelimiters THEN i - 1
    ELSE sentence_end(chunk_content, i - 1)

\* a window: its content and its end
Window(chunk_content, end) == [chunk_content |-> chunk_content, end |-> end]
CutWindow(chunk_content, start) == Window(chunk_content, start + Len(chunk_content))

\* the cut of the window [start, end) of _chunk_by_chars at a sentence
\* boundary, sentence_end being the place of its last delimiter
FixedCut(self, text, start, end, chunk_content, last_end) ==
    IF /\ end < Len(text)
       /\ self.chunk_overlap > 0
       /\ RLt(RMul(R(self.chunk_size), self.min_content_ratio), R(last_end))
    THEN CutWindow(PySlice(chunk_content, 0, last_end + 1), start)
    ELSE Window(chunk_content, end)

FixedSlice(self, text, start, end, chunk_content) ==
    FixedCut(self, text, start, end, chunk_content,
             sentence_end(chunk_content, Len(chunk_content)))

\* the window of _chunk_by_chars that starts at start
FixedWindow(self, text, start, end) ==
    FixedSlice(self, text, start, end, PySlice(text, start, end))

\* the next window start without the forward-progress correction
NextStartUnforced(self, start, end) ==
    IF self.chunk_overlap > 0 THEN end - self.chunk_overlap ELSE end

NextStart(self, start, end) ==
    IF NextStartUnforced(self, start, end) <= start THEN start + 1
    ELSE NextStartUnforced(self, start, end)

GUARD_SLACK == 10

MaxIterations(self, text) ==
    (Len(text) \div Max2(1, self.chunk_size - self.chunk_overlap)) + GUARD_SLACK

FixedChunkOf(chunk_content, chunk_index, start, end) ==
    Chunk(strip(chunk_content), chunk_index, start, end,
          [strategy |-> "fixed", chunk_size |-> Len(chunk_content)], None)

\* the while loop of _chunk_by_chars; warned records the warning the
\* iteration guard logs before it leaves the loop
RECURSIVE FixedLoop(_, _, _, _, _)

\* the end of an iteration: leave the loop or go on from next_start
FixedAdvance(self, text, next_start, iteration_count, chunks) ==
    IF next_start >= Len(text) THEN [ret |-> chunks, warned |-> FALSE]
    ELSE FixedLoop(self, text, next_start, iteration_count + 1, chunks)

\* the chunk of the window [start, end) is appended
FixedAppend(self, text, start, iteration_count, chunks, end, chunk_content) ==
    FixedAdvance(self, text, NextStart(self, start, end), iteration_count,
                 Append(chunks, FixedChunkOf(chunk_content, Len(chunks), start, end)))

\* a window that is empty is replaced by the one character at start
FixedIteration(self, text, start, iteration_count, chunks, w) ==
    IF w.end <= start
    THEN FixedAppend(self, text, start, iteration_count, chunks, start + 1,
                     PySlice(text, start, start + 1))
    ELSE FixedAppend(self, text, start, iteration_count, chunks, w.end, w.chunk_content)

FixedLoop(self, text, start, iteration_count, chunks) ==
    IF ~(start < Len(text)) THEN [ret |-> chunks, warned |-> FALSE]
    ELSE IF iteration_count + 1 > MaxIterations(self, text)
    THEN [ret |-> chunks, warned |-> TRUE]
    ELSE FixedIteration(self, text, start, iteration_count, chunks,
                        FixedWindow(self, text, start,
                                    Min2(start + self.chunk_size, Len(text))))

\* _chunk_by_chars: the chunk list and whether the guard warned
_chunk_by_chars(self, text) ==
    IF text = <<>> \/ strip(text) = <<>> THEN [ret |-> <<>>, warned |-> FALSE]
    ELSE IF Len(text) <= self.chunk_size
    THEN [ret |-> <<Chunk(strip(text), 0, 0, Len(text),
                          [strategy |-> "fixed", chunk_size |-> Len(text)], None)>>,
          warned |-> FALSE]
    ELSE FixedLoop(self, text, 0, 0, <<>>)

APPROXIMATE_CHARS_PER_TOKEN == 3

\* the window sizes _chunk_by_tokens puts in place for its _chunk_by_chars call
_chunk_by_tokens(self) ==
    [self EXCEPT !.chunk_size = self.chunk_size * APPROXIMATE_CHARS_PER_TOKEN,
                 !.chunk_overlap = self.chunk_overlap * APPROXIMATE_CHARS_PER_TOKEN]

\* the outcome of a chunker call that returns, on the cleaned text
ReturnedOn(r, cleaned) == Returned(r.ret, r.warned, cleaned)

FixedChunked(self, cleaned) ==
    ReturnedOn(_chunk_by_chars(IF self.use_tokens THEN _chunk_by_tokens(self) ELSE self,
                               cleaned),
               cleaned)

\* FixedChunker._chunk
FixedChunker_chunk(self, text, kwargs) == FixedChunked(self, _clean_text(text, kwargs))

-----------------------------------------------------------------------------
(* TitleChunker *)

DEFAULT_MAX_DEPTH == 4
MAX_HASHES == 6

TitleChunker(config) ==
    BaseChunker("title", config) @@
    [max_depth |-> get_config(config, "max_depth", DEFAULT_MAX_DEPTH),
     include_headers |-> get_config(config, "include_headers", TRUE)]

\* the number of "#" a line starts with
RECURSIVE LeadingHashes(_)
LeadingHashes(line) ==
    IF line # <<>> /\ Head(line) = "#" THEN 1 + LeadingHashes(Tail(line)) ELSE 0

\* re.match(r"^(#{1,6})\s+(.+)$", line) for a line without a line break and
\* with hashes leading "#": they are followed by white space and by at least
\* one more character
HashesMatch(line, hashes) ==
    /\ hashes >= 1
    /\ hashes <= MAX_HASHES
    /\ Len(line) >= hashes + 2
    /\ line[hashes + 1] \in Whitespace

title_match(line) == HashesMatch(line, LeadingHashes(line))

\* len(title_match.group(1)) and title_match.group(2).strip()
title_level(line) == LeadingHashes(line)
title_text(line) == strip(SubSeq(line, LeadingHashes(line) + 1, Len(line)))

TitleChunkOf(lines, chunk_index, start_index, end_index, title, level) ==
    Chunk(strip(join(lines, "\n")), chunk_index, start_index, end_index,
          [strategy |-> "title", title |-> title, title_level |-> level], None)

\* chunks after the lines collected so far, if any, are saved as a chunk
Flushed(chunks, current_chunk_lines, current_title, current_level, start_index, current_pos) ==
    IF current_chunk_lines # <<>>
    THEN Append(chunks, TitleChunkOf(current_chunk_lines, Len(chunks), start_index,
                                     current_pos, current_title, current_level))
    ELSE chunks

\* the for loop of TitleChunker._chunk and the flush of the last chunk
RECURSIVE TitleLoop(_, _, _, _, _, _, _, _)
TitleLoop(self, lines, chunks, current_chunk_lines, current_title, current_level, start_index, current_pos) ==
    IF lines = <<>>
    THEN Flushed(chunks, current_chunk_lines, current_title, current_level,
                 start_index, current_pos)
    ELSE IF title_match(Head(lines))
    THEN TitleLoop(self, Tail(lines),
                   Flushed(chunks, current_chunk_lines, current_title, current_level,
                           start_index, current_pos),
                   IF self.include_headers THEN <<Head(lines)>> ELSE <<>>,
                   title_text(Head(lines)), title_level(Head(lines)),
                   IF current_chunk_lines # <<>> THEN current_pos ELSE start_index,
                   current_pos + Len(Head(lines)) + 1)
    ELSE TitleLoop(self, Tail(lines), chunks, Append(current_chunk_lines, Head(lines)),
                   current_title, current_level, start_index,
                   current_pos + Len(Head(lines)) + 1)

\* the whole text as one chunk when the loop produced none
TitleChunks(cleaned, chunks) ==
    IF chunks = <<>>
    THEN <<Chunk(cleaned, 0, 0, Len(cleaned),
                 [strategy |-> "title", title |-> <<>>, title_level |-> 0], None)>>
    ELSE chunks

TitleChunked(self, cleaned) ==
    Returned(TitleChunks(cleaned,
                         TitleLoop(self, split(cleaned, "\n"), <<>>, <<>>, <<>>, 0, 0, 0)),
             FALSE, cleaned)

\* TitleChunker._chunk
TitleChunker_chunk(self, text, kwargs) == TitleChunked(self, _clean_text(text, kwargs))

-----------------------------------------------------------------------------
(* ParentChildChunker *)

DEFAULT_PARENT_SIZE == 2000
DEFAULT_CHILD_SIZE == 512
DEFAULT_CHILD_OVERLAP == 50

ParentChildChunker(config) ==
    BaseChunker("parent_child", config) @@
    [parent_size |-> get_config(config, "parent_size", DEFAULT_PARENT_SIZE),
     child_size |-> get_config(config, "child_size", DEFAULT_CHILD_SIZE),
     child_overlap |-> get_config(config, "child_overlap", DEFAULT_CHILD_OVERLAP),
     min_content_ratio |-> get_config(config, "min_content_ratio", MIN_CONTENT_RATIO)]

\* text.rfind("\n\n", start, i + 2), 0-based, -1 when absent
RECURSIVE paragraph_rfind(_, _, _)
paragraph_rfind(text, start, i) ==
    IF i < start THEN -1
    ELSE IF text[i + 1] = "\n" /\ text[i + 2] = "\n" THEN i
    ELSE paragraph_rfind(text, start, i - 1)

\* the end of the parent window [start, end) after the cut at the paragraph
\* break found at paragraph_end
ParentCut(self, text, start, end, paragraph_end) ==
    IF /\ end < Len(text)
       /\ RLt(RAdd(R(start), RMul(R(self.parent_size), self.min_content_ratio)),
              R(paragraph_end))
    THEN paragraph_end + 2
    ELSE end

ParentEnd(self, text, start, end) ==
    ParentCut(self, text, start, end, paragraph_rfind(text, start, end - 2))

ParentChunkOf(chunk_content, parent_index, start, end) ==
    Chunk(strip(chunk_content), parent_index, start, end,
          [strategy |-> "parent_child", chunk_type |-> "parent",
           chunk_size |-> Len(chunk_content)],
          None)

\* the while loop of _create_parent_chunks
RECURSIVE ParentLoop(_, _, _, _)

ParentAppend(self, text, start, parent_chunks, end) ==
    ParentLoop(self, text, end,
               Append(parent_chunks,
                      ParentChunkOf(PySlice(text, start, end), Len(parent_chunks),
                                    start, end)))

ParentLoop(self, text, start, parent_chunks) ==
    IF ~(start < Len(text)) THEN parent_chunks
    ELSE ParentAppend(self, text, start, parent_chunks,
                      ParentEnd(self, text, start,
                                Min2(start + self.parent_size, Len(text))))

_create_parent_chunks(self, text) == ParentLoop(self, text, 0, <<>>)

\* the cut of the window [start, end) of _create_child_chunks at a sentence
\* boundary
ChildCut(self, text, start, end, chunk_content, last_end) ==
    IF /\ end < Len(text)
       /\ self.child_overlap > 0
       /\ RLt(RMul(R(self.child_size), self.min_content_ratio), R(last_end))
    THEN CutWindow(PySlice(chunk_content, 0, last_end + 1), start)
    ELSE Window(chunk_content, end)

ChildSlice(self, text, start, end, chunk_content) ==
    ChildCut(self, text, start, end, chunk_content,
             sentence_end(chunk_content, Len(chunk_content)))

\* the window of _create_child_chunks that starts at start
ChildWindow(self, text, start, end) ==
    ChildSlice(self, text, start, end, PySlice(text, start, end))

\* whether the loop of _create_child_chunks, arrived at start, runs for ever.
\* The loop keeps no state but start, so it does when a start comes back
\* (seen holds the starts of the iterations so far).  It also does once a
\* window lies wholly before text[-len(text)] while child_overlap >=
\* child_size: such a window is empty, is not cut, ends before the text does,
\* and the next start is no larger.
ChildLoopStuck(self, text, start, seen) ==
    \/ start \in seen
    \/ /\ start + self.child_size < -Len(text)
       /\ self.child_overlap >= self.child_size

ChildChunkOf(chunk_content, child_index, start_index, end_index, parent_chunk_index) ==
    Chunk(strip(chunk_content), child_index, start_index, end_index,
          [strategy |-> "parent_child", chunk_type |-> "child",
           chunk_size |-> Len(chunk_content)],
          Some(parent_chunk_index))

\* the while loop of _create_child_chunks; diverged says that it does not
\* return
RECURSIVE ChildLoop(_, _, _, _, _, _, _)

\* the end of an iteration whose window ended at end
ChildAdvance(self, text, base_start_index, parent_chunk_index, start, seen, child_chunks, end, next_start) ==
    IF end >= Len(text) \/ next_start >= end
    THEN [ret |-> child_chunks, diverged |-> FALSE]
    ELSE ChildLoop(self, text, base_start_index, parent_chunk_index, next_start,
                   seen \cup {start}, child_chunks)

ChildIteration(self, text, base_start_index, parent_chunk_index, start, seen, child_chunks, w) ==
    ChildAdvance(self, text, base_start_index, parent_chunk_index, start, seen,
                 Append(child_chunks,
                        ChildChunkOf(w.chunk_content, Len(child_chunks),
                                     base_start_index + start, base_start_index + w.end,
                                     parent_chunk_index)),
                 w.end,
                 IF self.child_overlap > 0 THEN w.end - self.child_overlap ELSE w.end)

ChildLoop(self, text, base_start_index, parent_chunk_index, start, seen, child_chunks) ==
    IF ~(start < Len(text)) THEN [ret |-> child_chunks, diverged |-> FALSE]
    ELSE IF ChildLoopStuck(self, text, start, seen)
    THEN [ret |-> child_chunks, diverged |-> TRUE]
    ELSE ChildIteration(self, text, base_start_index, parent_chunk_index, start, seen,
                        child_chunks,
                        ChildWindow(self, text, start,
                                    Min2(start + self.child_size, Len(text))))

_create_child_chunks(self, text, base_start_index, parent_chunk_index) ==
    ChildLoop(self, text, base_start_index, parent_chunk_index, 0, {}, <<>>)

\* all_chunks after the children of parent_chunk are appended
WithChildren(all_chunks, parent_chunk, child_chunks) ==
    all_chunks \o
    [i \in 1..Len(child_chunks) |->
        [child_chunks[i] EXCEPT !.chunk_index = Len(all_chunks) + i - 1,
                                !.parent_chunk_id = Some(parent_chunk.chunk_index)]]

\* the for loop of ParentChildChunker._chunk over the parents
RECURSIVE FamilyLoop(_, _, _)

FamilyAppend(self, parent_chunks, all_chunks, parent_chunk, children) ==
    IF children.diverged THEN [ret |-> all_chunks, diverged |-> TRUE]
    ELSE FamilyLoop(self, Tail(parent_chunks),
                    WithChildren(Append(all_chunks, parent_chunk), parent_chunk,
                                 children.ret))

Family(self, parent_chunks, all_chunks, parent_chunk) ==
    FamilyAppend(self, parent_chunks, all_chunks, parent_chunk,
                 _create_child_chunks(self, parent_chunk.content,
                                      parent_chunk.start_index, parent_chunk.chunk_index))

FamilyLoop(self, parent_chunks, all_chunks) ==
    IF parent_chunks = <<>> THEN [ret |-> all_chunks, diverged |-> FALSE]
    ELSE Family(self, parent_chunks, all_chunks,
                [Head(parent_chunks) EXCEPT !.chunk_index = Len(all_chunks)])

FamilyOutcome(r, cleaned) ==
    IF r.diverged THEN Diverged(cleaned) ELSE Returned(r.ret, FALSE, cleaned)

ParentChildChunked(self, cleaned) ==
    FamilyOutcome(FamilyLoop(self, _create_parent_chunks(self, cleaned), <<>>), cleaned)

\* ParentChildChunker._chunk
ParentChildChunker_chunk(self, text, kwargs) ==
    ParentChildChunked(self, _clean_text(text, kwargs))

-----------------------------------------------------------------------------
(* Entry paths of segmentation *)

StrInput(text) == [type |-> "str", value |-> text]
NoneInput == [type |-> "NoneType", value |-> <<>>]
IntInput == [type |-> "int", value |-> <<>>]

\* BaseChunker.validate_input
BaseChunker_validate_input(input_data) ==
    /\ input_data.type # "NoneType"
    /\ input_data.type = "str"
    /\ strip(input_data.value) # <<>>

-----------------------------------------------------------------------------
(* SemanticChunker: the embedding path and the rule-based fallback *)

MaxSentences == 3
MaxSemanticSize == 6
DEFAULT_MIN_CHUNK_SIZE == 100
DEFAULT_MAX_CHUNK_SIZE == 1000

\* split_by_sentences with the default delimiters: re.split at "." and the
\* white space after it, then the stripped pieces that are not empty
split_by_sentences(text) == StrippedNonEmpty(split(text, "."))

\* SemanticChunker.__init__: no model until _initialize has loaded one
SemanticChunker(min_chunk_size, max_chunk_size) ==
    BaseChunker("semantic", [chunk_size |-> None, chunk_overlap |-> None])
        @@ [min_chunk_size |-> IF min_chunk_size = None THEN DEFAULT_MIN_CHUNK_SIZE
                               ELSE min_chunk_size[1],
            max_chunk_size |-> IF max_chunk_size = None THEN DEFAULT_MAX_CHUNK_SIZE
                               ELSE max_chunk_size[1],
            model |-> None,
            _fallback_enabled |-> FALSE]

\* SemanticChunker._initialize: loaded is None when sentence_transformers is
\* missing or the model cannot be loaded from the local cache, and the
\* loaded model otherwise
SemanticChunker_initialize(self, loaded) ==
    [self EXCEPT !.model = loaded,
                 !._fallback_enabled = (loaded = None),
                 !._initialized = TRUE]

\* what a call of the chunker does, with the number of calls of model.encode
SemanticReturned(ret, cleaned, encode_calls) ==
    Returned(ret, FALSE, cleaned) @@ [encode_calls |-> encode_calls]

FallbackChunk(current, chunk_index, start_index) ==
    Chunk(current, chunk_index, start_index, start_index + Len(current),
          [strategy |-> "semantic", fallback |-> TRUE], None)

\* the test that closes the current chunk before a sentence is added
FallbackNeverOverflows(self, current, candidate) == FALSE
FallbackOverflows(self, current, candidate) ==
    current # <<>> /\ Len(candidate) > self.max_chunk_size

\* the loop of _fallback_chunk_by_sentences and the chunk after it
RECURSIVE FallbackLoop(_, _, _, _, _)
FallbackStep(self, rest, chunks, current, start_index, sentence, candidate) ==
    IF FallbackOverflows(self, current, candidate)
    THEN FallbackLoop(self, rest,
                      Append(chunks, FallbackChunk(current, Len(chunks), start_index)),
                      sentence, start_index + Len(current))
    ELSE FallbackLoop(self, rest, chunks, candidate, start_index)

FallbackSentence(self, rest, chunks, current, start_index, sentence) ==
    IF sentence = <<>> THEN FallbackLoop(self, rest, chunks, current, start_index)
    ELSE FallbackStep(self, rest, chunks, current, start_index, sentence,
                      IF current # <<>> THEN strip(current \o <<" ">> \o sentence)
                      ELSE sentence)

FallbackLoop(self, sentences, chunks, current, start_index) ==
    IF sentences = <<>>
    THEN (IF current # <<>>
          THEN Append(chunks, FallbackChunk(current, Len(chunks), start_index))
          ELSE chunks)
    ELSE FallbackSentence(self, Tail(sentences), chunks, current, start_index,
                          strip(Head(sentences)))

\* SemanticChunker._fallback_chunk_by_sentences
_fallback_chunk_by_sentences(self, text) ==
    FallbackLoop(self, split_by_sentences(text), <<>>, <<>>, 0)

SemanticChunk(content, chunk_index, start_index, length, sentence_count) ==
    Chunk(content, chunk_index, start_index, start_index + length,
          [strategy |-> "semantic", sentence_count |-> sentence_count], None)

\* the loop of _chunk when a model is loaded; self.model[1] holds the
\* positions at which the model finds the last two sentences dissimilar
RECURSIVE SemanticLoop(_, _, _, _, _, _, _, _)
SemanticCompare(self, sentences, i, chunks, current_sentences, current_text, start_index, calls) ==
    IF Len(current_text) >= self.min_chunk_size /\ Len(current_sentences) > 1
    THEN IF i \in self.model[1]
         THEN SemanticLoop(self, sentences, i + 1,
                  Append(chunks,
                         SemanticChunk(strip(join(PySlice(current_sentences, 0, -1), " ")),
                                       Len(chunks), start_index,
                                       Len(join(PySlice(current_sentences, 0, -1), " ")),
                                       Len(current_sentences) - 1)),
                  <<sentences[i + 1]>>, sentences[i + 1] \o <<" ">>,
                  start_index + Len(join(PySlice(current_sentences, 0, -1), " ")),
                  calls + 1)
         ELSE SemanticLoop(self, sentences, i + 1, chunks, current_sentences,
                           current_text, start_index, calls + 1)
    ELSE SemanticLoop(self, sentences, i + 1, chunks, current_sentences, current_text,
                      start_index, calls)

SemanticAdd(self, sentences, i, chunks, current_sentences, current_text, start_index, calls) ==
    SemanticCompare(self, sentences, i, chunks,
                    Append(current_sentences, sentences[i + 1]),
                    current_text \o sentences[i + 1] \o <<" ">>, start_index, calls)

SemanticLoop(self, sentences, i, chunks, current_sentences, current_text, start_index, calls) ==
    IF i >= Len(sentences)
    THEN [calls |-> calls,
          ret |-> IF strip(current_text) # <<>>
                  THEN Append(chunks,
                              SemanticChunk(strip(current_text), Len(chunks), start_index,
                                            Len(current_text), Len(current_sentences)))
                  ELSE chunks]
    ELSE IF current_text # <<>>
            /\ Len(current_text \o sentences[i + 1]) > self.max_chunk_size
    THEN SemanticAdd(self, sentences, i,
                     Append(chunks,
                            SemanticChunk(strip(current_text), Len(chunks), start_index,
                                          Len(current_text), Len(current_sentences))),
                     <<>>, <<>>, start_index + Len(current_text), calls)
    ELSE SemanticAdd(self, sentences, i, chunks, current_sentences, current_text,
                     start_index, calls)

SemanticLooped(r, cleaned) == SemanticReturned(r.ret, cleaned, r.calls)

SemanticModelChunked(self, cleaned, sentences) ==
    IF sentences = <<>> THEN SemanticReturned(<<>>, cleaned, 0)
    ELSE IF Len(cleaned) <= self.max_chunk_size
    THEN SemanticReturned(<<SemanticChunk(cleaned, 0, 0, Len(cleaned), Len(sentences))>>,
                          cleaned, 0)
    ELSE SemanticLooped(SemanticLoop(self, sentences, 0, <<>>, <<>>, <<>>, 0, 0), cleaned)

SemanticChunked(self, cleaned) ==
    IF self.model = None
    THEN SemanticReturned(_fallback_chunk_by_sentences(self, cleaned), cleaned, 0)
    ELSE SemanticModelChunked(self, cleaned, split_by_sentences(cleaned))

\* SemanticChunker._chunk
SemanticChunker_chunk(self, text, kwargs) == SemanticChunked(self, _clean_text(text, kwargs))

-----------------------------------------------------------------------------
\* self._chunk of the chunker's class
Chunker_chunk(self, text, kwargs) ==
    CASE self.strategy = "fixed" -> FixedChunker_chunk(self, text, kwargs)
      [] self.strategy = "title" -> TitleChunker_chunk(self, text, kwargs)
      [] self.strategy = "parent_child" -> ParentChildChunker_chunk(self, text, kwargs)
      [] self.strategy = "semantic" -> SemanticChunker_chunk(self, text, kwargs)

\* BaseChunker.process: len(input_data) of the log line, then _chunk
BaseChunker_process(self, input_data, kwargs) ==
    IF input_data.type # "str" THEN Raised("TypeError")
    ELSE Chunker_chunk(self, input_data.value, kwargs)

\* BaseOperator.__call__ of a chunker
Chunker__call__(self, input_data, kwargs) ==
    IF ~BaseChunker_validate_input(input_data) THEN Raised("ValueError")
    ELSE BaseChunker_process(self, input_data, kwargs)

CHUNK_SIZE == 512
CHUNK_OVERLAP == 50
CHUNK_STRATEGY == "parent_child"
BUILTIN_CHUNKER_REGISTRY == {"fixed", "title", "parent_child"}

\* a config dict with no key
NoConfig ==
    [chunk_size |-> None, chunk_overlap |-> None, use_tokens |-> None,
     min_content_ratio |-> None, max_depth |-> None, include_headers |-> None,
     parent_size |-> None, child_size |-> None, child_overlap |-> None]

\* config.update(extra)
Update(config, extra) ==
    [key \in DOMAIN config |-> IF extra[key] # None THEN extra[key] ELSE config[key]]

NewChunker(strategy, config) ==
    CASE strategy = "fixed" -> FixedChunker(config)
      [] strategy = "title" -> TitleChunker(config)
      [] strategy = "parent_child" -> ParentChildChunker(config)

\* ChunkerFactory.create_chunker, for a strategy of the registry
create_chunker(strategy, config) ==
    [NewChunker(IF strategy = None THEN CHUNK_STRATEGY ELSE strategy[1],
                Update([NoConfig EXCEPT !.chunk_size = Some(CHUNK_SIZE),
                                        !.chunk_overlap = Some(CHUNK_OVERLAP)],
                       config))
     EXCEPT !._initialized = TRUE]

ChunkDTO(c) ==
    [content |-> c.content, chunk_index |-> c.chunk_index,
     start_index |-> c.start_index, end_index |-> c.end_index,
     metadata |-> c.metadata, parent_chunk_id |-> c.parent_chunk_id]

\* the result list of ChunkerService.chunk
ChunkDTOs(r) == [r EXCEPT !.ret = [i \in 1..Len(r.ret) |-> ChunkDTO(r.ret[i])]]

DefaultKwargs == [whitespace_pattern |-> NoPattern]

\* the config dict ChunkerService.chunk builds from the request
RequestConfig(request) ==
    Update([NoConfig EXCEPT
               !.chunk_size =
                   IF request.chunk_size = None \/ request.chunk_size[1] <= 0
                   THEN Some(CHUNK_SIZE) ELSE request.chunk_size,
               !.chunk_overlap =
                   IF request.chunk_overlap = None \/ request.chunk_overlap[1] < 0
                   THEN Some(CHUNK_OVERLAP) ELSE request.chunk_overlap],
           request.extra_config)

\* ChunkerService.chunk
ChunkerService_chunk(request) ==
    IF request.strategy # None /\ request.strategy[1] \notin BUILTIN_CHUNKER_REGISTRY
    THEN Raised("ValueError")
    ELSE ChunkDTOs(BaseChunker_process(create_chunker(request.strategy,
                                                      RequestConfig(request)),
                                       StrInput(request.text), DefaultKwargs))

-----------------------------------------------------------------------------
(* Inputs of segmentation *)

\* every text of at most n characters
Texts(n) == UNION {[1..k -> Chars] : k \in 0..n}

\* k letters, with a full stop in place of the letter at position stop
LetterText(k, stop) == [i \in 1..k |-> IF i = stop THEN "." ELSE "a"]

\* the longer texts: letters with at most one full stop
LongTexts(n) == {LetterText(k, stop) : k \in (MaxTextLen + 1)..n, stop \in 0..n}

\* a Markdown heading line of the given level, a body line, an empty line
HeadingLine(level) == [i \in 1..level |-> "#"] \o <<" ", "a">>
LineKinds == {<<"a">>, <<>>} \cup {HeadingLine(level) : level \in 1..MaxLevel}

\* the Markdown texts of at most MaxLines such lines
LineTexts == {join(lines, "\n") : lines \in UNION {[1..k -> LineKinds] : k \in 1..MaxLines}}

SegmentTexts == Texts(MaxTextLen) \cup LineTexts

SegmentInputs == {StrInput(text) : text \in SegmentTexts} \cup {NoneInput, IntInput}

KwargsSet == {[whitespace_pattern |-> p] : p \in {NoPattern, BlankPattern}}

\* the chunkers segmentation is entered with
SegmentConfigs ==
    {[NoConfig EXCEPT !.chunk_size = size, !.chunk_overlap = overlap]
        : size \in {None, Some(2)}, overlap \in {None, Some(1)}}
SegmentChunkers ==
    {FixedChunker([c EXCEPT !.use_tokens = t])
        : c \in SegmentConfigs, t \in {None, Some(TRUE)}}
    \cup {TitleChunker([NoConfig EXCEPT !.max_depth = d, !.include_headers = h])
             : d \in {None, Some(1)}, h \in {None, Some(FALSE)}}
    \cup {ParentChildChunker([c EXCEPT !.parent_size = Some(3), !.child_size = s])
             : c \in SegmentConfigs, s \in {None, Some(2)}}

\* the requests ChunkerService.chunk is entered with
Requests ==
    {[text |-> text, strategy |-> strategy, chunk_size |-> size,
      chunk_overlap |-> overlap, extra_config |-> NoConfig]
        : text \in SegmentTexts,
          strategy \in {None} \cup {Some(s) : s \in BUILTIN_CHUNKER_REGISTRY \cup {"other"}},
          size \in {None, Some(0), Some(2)},
          overlap \in {None, Some(-1), Some(1)}}

-----------------------------------------------------------------------------
(* Segmentation through its entry paths: one call per behaviour *)

InitSegment ==
    /\ op = NoOp
    /\ last = NoCall
    /\ fin \in {[fn |-> fn, self |-> self, input_data |-> input_data, kwargs |-> kwargs]
                   : fn \in {"__call__", "process"}, self \in SegmentChunkers,
                     input_data \in SegmentInputs, kwargs \in KwargsSet}
               \cup {[fn |-> "chunk", request |-> request] : request \in Requests}
    /\ fout = NoOut

CallChunker ==
    /\ fin.fn = "__call__"
    /\ fout = NoOut
    /\ fout' = Chunker__call__(fin.self, fin.input_data, fin.kwargs)
    /\ UNCHANGED <<op, last, fin>>

ProcessChunker ==
    /\ fin.fn = "process"
    /\ fout = NoOut
    /\ fout' = BaseChunker_process(fin.self, fin.input_data, fin.kwargs)
    /\ UNCHANGED <<op, last, fin>>

ServiceChunk ==
    /\ fin.fn = "chunk"
    /\ fout = NoOut
    /\ fout' = ChunkerService_chunk(fin.request)
    /\ UNCHANGED <<op, last, fin>>

NextSegment == CallChunker \/ ProcessChunker \/ ServiceChunk

SpecSegment == InitSegment /\ [][NextSegment]_vars

\* the input of the call and whether the call is over
SegmentInput == IF fin.fn = "chunk" THEN StrInput(fin.request.text) ELSE fin.input_data
SegmentDone == fin.fn \in {"__call__", "process", "chunk"} /\ fout # NoOut
BlankInput(input_data) == input_data.type = "str" /\ strip(input_data.value) = <<>>

(* C12: on every entry path (__call__, a direct process() call,             *)
(* ChunkerService.chunk) and for every strategy, segmentation of an empty   *)
(* or whitespace-only text fails with the invalid-input error; no chunk     *)
(* list, empty or not, is returned for such a text.                         *)
ClaimC12_BlankTextRejectedOnEveryPath ==
    (SegmentDone /\ BlankInput(SegmentInput))
    => (fout.status = "raised" /\ fout.error = "ValueError")

-----------------------------------------------------------------------------
(* FixedChunker.process over window sizes and texts: one call per behaviour *)

\* the configs with chunk_size in 1 .. max_size, chunk_overlap in 0 .. max_overlap
FixedConfigs(max_size, max_overlap) ==
    {[NoConfig EXCEPT !.chunk_size = Some(size), !.chunk_overlap = Some(overlap)]
        : size \in 1..max_size, overlap \in 0..max_overlap}

\* every short text under every window no larger than just above its
\* length, the longer texts under every window
FixedCalls ==
    (FixedConfigs(MaxTextLen + 1, MaxTextLen + 1) \X Texts(MaxTextLen))
    \cup (FixedConfigs(MaxChunkSize, MaxOverlap) \X LongTexts(MaxLongLen))

InitFixed ==
    /\ op = NoOp
    /\ last = NoCall
    /\ fin \in {[fn |-> "FixedChunker.process", self |-> FixedChunker(call[1]),
                 input_data |-> StrInput(call[2]), kwargs |-> DefaultKwargs]
                   : call \in FixedCalls}
    /\ fout = NoOut

ApplyFixed ==
    /\ fin.fn = "FixedChunker.process"
    /\ fout = NoOut
    /\ fout' = BaseChunker_process(fin.self, fin.input_data, fin.kwargs)
    /\ UNCHANGED <<op, last, fin>>

SpecFixed == InitFixed /\ [][ApplyFixed]_vars

\* the call is over; fout.text is the text the windows were cut from
FixedDone == fin.fn = "FixedChunker.process" /\ fout # NoOut
FixedLong == Len(fout.text) > fin.self.chunk_size

\* the chunks start at 0, leave no gap and reach the end of text
Covering(chunks, text) ==
    /\ chunks # <<>>
    /\ chunks[1].start_index = 0
    /\ \A i \in 2..Len(chunks) : chunks[i].start_index <= chunks[i - 1].end_index
    /\ \E i \in 1..Len(chunks) : chunks[i].end_index = Len(text)

(* C13: FixedChunker never returns a silently truncated result: a chunk     *)
(* list returned for a text longer than chunk_size starts at 0, has no gap  *)
(* between consecutive chunks and reaches len(text), and it is never the    *)
(* list the iteration guard cut short: running into the guard is an error.  *)
ClaimC13_NoSilentTruncation ==
    (FixedDone /\ FixedLong /\ fout.status = "returned")
    => (~fout.warned /\ Covering(fout.ret, fout.text))

(* C14: for chunk_size >= 1 and chunk_overlap >= 0, chunk_overlap >=        *)
(* chunk_size included, FixedChunker returns; the window start strictly     *)
(* increases from one iteration to the next; a text longer than chunk_size  *)
(* gives at least 2 chunks, each spanning at most chunk_size characters.    *)
TheoremC14_FixedChunkerProgress ==
    FixedDone
    => /\ fout.status = "returned"
       /\ \A i \in 2..Len(fout.ret) :
              fout.ret[i].start_index > fout.ret[i - 1].start_index
       /\ FixedLong
          => /\ Len(fout.ret) >= 2
             /\ \A i \in 1..Len(fout.ret) :
                    fout.ret[i].end_index - fout.ret[i].start_index <= fin.self.chunk_size

\* chunk_size=10, chunk_overlap=2 on a 15-character text
WitnessC14_Scenario10By2On15 ==
    /\ FixedDone
    /\ fin.self.chunk_size = 10
    /\ fin.self.chunk_overlap = 2
    /\ Len(fin.input_data.value) = 15
    /\ Len(fout.text) = 15
    /\ Len(fout.ret) >= 2
    /\ fout.ret[2].start_index = 8

(* C15: for every input text with len(text) <= chunk_size (and not blank),  *)
(* FixedChunker.process returns exactly one chunk, with chunk_index 0,      *)
(* whose content is the input text with leading and trailing whitespace     *)
(* trimmed.                                                                 *)
ClaimC15_ShortTextIsOneTrimmedChunk ==
    (/\ FixedDone
     /\ BaseChunker_validate_input(fin.input_data)
     /\ Len(fin.input_data.value) <= fin.self.chunk_size)
    => /\ fout.status = "returned"
       /\ Len(fout.ret) = 1
       /\ fout.ret[1].chunk_index = 0
       /\ fout.ret[1].content = strip(fin.input_data.value)

-----------------------------------------------------------------------------
(* ParentChildChunker.process over sizes and texts: one call per behaviour *)

\* two paragraphs of letters separated by a blank line
ParagraphText(p, q) == [i \in 1..p |-> "a"] \o <<"\n", "\n">> \o [i \in 1..q |-> "a"]
ParagraphTexts == {ParagraphText(p, q) : p \in 1..MaxParagraph, q \in 1..MaxParagraph}

FamilyConfigs(parent_sizes, max_size, max_overlap) ==
    {[NoConfig EXCEPT !.parent_size = parent_size, !.child_size = Some(size),
                      !.child_overlap = Some(overlap)]
        : parent_size \in parent_sizes, size \in 1..max_size, overlap \in 0..max_overlap}

\* every short text under every small parent and child window, the longer
\* texts as one parent under every child window, the two-paragraph texts
\* under every parent window
FamilyCalls ==
    (FamilyConfigs({Some(n) : n \in 1..(MaxTextLen + 1)}, MaxTextLen + 1, MaxTextLen + 1)
        \X Texts(MaxTextLen))
    \cup (FamilyConfigs({None}, MaxChunkSize, MaxOverlap) \X LongTexts(MaxLongLen))
    \cup ({[NoConfig EXCEPT !.parent_size = Some(n)] : n \in 1..MaxParentSize}
             \X ParagraphTexts)

InitFamily ==
    /\ op = NoOp
    /\ last = NoCall
    /\ fin \in {[fn |-> "ParentChildChunker.process", self |-> ParentChildChunker(call[1]),
                 input_data |-> StrInput(call[2]), kwargs |-> DefaultKwargs]
                   : call \in FamilyCalls}
    /\ fout = NoOut

ApplyFamily ==
    /\ fin.fn = "ParentChildChunker.process"
    /\ fout = NoOut
    /\ fout' = BaseChunker_process(fin.self, fin.input_data, fin.kwargs)
    /\ UNCHANGED <<op, last, fin>>

SpecFamily == InitFamily /\ [][ApplyFamily]_vars

FamilyDone == fin.fn = "ParentChildChunker.process" /\ fout # NoOut
FamilyReturned == FamilyDone /\ fout.status = "returned"

IsParent(chunk) == chunk.metadata.chunk_type = "parent"
IsChild(chunk) == chunk.metadata.chunk_type = "child"

\* the positions of the parents in a chunk list, and the position of the
\* nearest parent before position i (0 when there is none)
ParentPositions(chunks) == {j \in 1..Len(chunks) : IsParent(chunks[j])}
ParentBefore(chunks, i) ==
    IF \E j \in ParentPositions(chunks) : j < i
    THEN CHOOSE j \in ParentPositions(chunks) :
             j < i /\ \A k \in ParentPositions(chunks) : k < i => k <= j
    ELSE 0

(* C16: in every ParentChildChunker output chunk_index is the position in   *)
(* the list, every child follows a parent, its parent_chunk_id is the       *)
(* chunk_index of the nearest preceding parent, and its [start_index,       *)
(* end_index) lies within that parent's [start_index, end_index).           *)
ClaimC16_ChildrenWithinTheirParent ==
    FamilyReturned
    => \A i \in 1..Len(fout.ret) :
          /\ fout.ret[i].chunk_index = i - 1
          /\ IsChild(fout.ret[i])
             => /\ ParentBefore(fout.ret, i) > 0
                /\ fout.ret[i].parent_chunk_id
                       = Some(fout.ret[ParentBefore(fout.ret, i)].chunk_index)
                /\ fout.ret[ParentBefore(fout.ret, i)].start_index
                       <= fout.ret[i].start_index
                /\ fout.ret[i].start_index <= fout.ret[i].end_index
                /\ fout.ret[i].end_index
                       <= fout.ret[ParentBefore(fout.ret, i)].end_index

\* the children of the parent at position j, as (content, start, end) with
\* the offsets taken from the parent's start
ChildrenOf(chunks, j) ==
    SelectSeq([i \in 1..Len(chunks) |->
                  IF i > j /\ IsChild(chunks[i]) /\ ParentBefore(chunks, i) = j
                  THEN <<(<<chunks[i].content,
                            chunks[i].start_index - chunks[j].start_index,
                            chunks[i].end_index - chunks[j].start_index>>)>>
                  ELSE <<>>],
              LAMBDA t : t # <<>>)

\* what FixedChunker's character windows give on a parent's content
FixedWindowsOn(self, content) ==
    LET chunks == _chunk_by_chars(
                      [chunk_size |-> self.child_size, chunk_overlap |-> self.child_overlap,
                       min_content_ratio |-> self.min_content_ratio],
                      content).ret
    IN  [i \in 1..Len(chunks) |->
            <<(<<chunks[i].content, chunks[i].start_index, chunks[i].end_index>>)>>]

(* C17: child splitting is the fixed-window algorithm: the call returns     *)
(* and, for every parent P, the (content, start, end) of P's children,      *)
(* offsets taken from P's start, are those FixedChunker's character         *)
(* windows produce on P's content with chunk_size = child_size and          *)
(* chunk_overlap = child_overlap.                                           *)
ClaimC17_ChildrenAreFixedWindows ==
    FamilyDone
    => /\ fout.status = "returned"
       /\ \A j \in ParentPositions(fout.ret) :
              ChildrenOf(fout.ret, j) = FixedWindowsOn(fin.self, fout.ret[j].content)

\* the parents of a chunk list, in order
Parents(chunks) == SelectSeq(chunks, IsParent)

\* the place of the last paragraph break in the first parent_size characters
\* of the input text
FirstBreak == paragraph_rfind(fin.input_data.value, 0,
                              Min2(fin.self.parent_size, Len(fin.input_data.value)) - 2)

(* C18: ParentChildChunker splits parents at paragraph breaks: when the     *)
(* first parent_size window of an input text holds a blank-line break past  *)
(* parent_size * min_content_ratio and the first parent is not the last,    *)
(* the first parent ends right after the last such break; no parent spans   *)
(* more than parent_size characters; the parents are consecutive and cover  *)
(* the text.                                                                *)
ClaimC18_ParentsEndAtParagraphBreaks ==
    (FamilyReturned /\ BaseChunker_validate_input(fin.input_data))
    => /\ Parents(fout.ret) # <<>>
       /\ Parents(fout.ret)[1].start_index = 0
       /\ \A i \in 1..Len(Parents(fout.ret)) :
              Parents(fout.ret)[i].end_index - Parents(fout.ret)[i].start_index
                  <= fin.self.parent_size
       /\ \A i \in 2..Len(Parents(fout.ret)) :
              Parents(fout.ret)[i].start_index = Parents(fout.ret)[i - 1].end_index
       /\ Parents(fout.ret)[Len(Parents(fout.ret))].end_index = Len(fout.text)
       /\ (/\ fin.input_data.value[1] \notin Whitespace
           /\ Len(Parents(fout.ret)) > 1
           /\ RLt(RMul(R(fin.self.parent_size), fin.self.min_content_ratio),
                  R(FirstBreak)))
          => Parents(fout.ret)[1].end_index = FirstBreak + 2

-----------------------------------------------------------------------------
(* TitleChunker.process on Markdown texts, among the calls of segmentation *)

TitleDone ==
    /\ fin.fn = "process"
    /\ fin.self.strategy = "title"
    /\ fin.kwargs = DefaultKwargs
    /\ BaseChunker_validate_input(fin.input_data)
    /\ fout # NoOut

\* the lines of the input text that are not blank
InputLines == StrippedNonEmpty(split(fin.input_data.value, "\n"))

\* every heading line is followed by a body line
HeadingsHaveBodies(lines) ==
    \A i \in 1..Len(lines) :
        title_match(lines[i]) => (i < Len(lines) /\ ~title_match(lines[i + 1]))

\* the (title, title_level) of the chunks a text of such lines is to give:
\* one for the content before the first heading, then one for every heading
HeadingOf(line) == <<title_text(line), title_level(line)>>
ExpectedTitles(lines) ==
    (IF title_match(lines[1]) THEN <<>> ELSE <<(<<(<<>>), 0>>)>>)
    \o [i \in 1..Len(SelectSeq(lines, title_match)) |->
           HeadingOf(SelectSeq(lines, title_match)[i])]

TitlesOf(chunks) ==
    [i \in 1..Len(chunks) |-> <<chunks[i].metadata.title, chunks[i].metadata.title_level>>]

(* C19: TitleChunker.process starts a new chunk at every Markdown heading   *)
(* line: for a text whose heading lines are each followed by a body line,   *)
(* the chunks' (title, title_level) are ("", 0) for content before the      *)
(* first heading and then the text and level of every heading line in       *)
(* order; a text with no heading line gives one chunk with title "" and     *)
(* title_level 0.                                                           *)
ClaimC19_ChunkPerHeadingLine ==
    (TitleDone /\ HeadingsHaveBodies(InputLines))
    => /\ fout.status = "returned"
       /\ TitlesOf(fout.ret) = ExpectedTitles(InputLines)

(* C20: TitleChunker honours max_depth: a heading line with more hashes     *)
(* than max_depth starts no chunk and leaves title and title_level alone,   *)
(* so no chunk carries a title_level above max_depth.                       *)
ClaimC20_MaxDepthHonoured ==
    (TitleDone /\ fout.status = "returned")
    => \A i \in 1..Len(fout.ret) :
           fout.ret[i].metadata.title_level <= fin.self.max_depth

-----------------------------------------------------------------------------
(* Windows, offsets and redundancy of the segmentations *)

\* every chunk lies within the text handed to the segmenter
WithinSource(chunks, source) ==
    \A i \in 1..Len(chunks) :
        /\ 0 <= chunks[i].start_index
        /\ chunks[i].start_index <= chunks[i].end_index
        /\ chunks[i].end_index <= Len(source)

(* C22: every chunk emitted by any strategy satisfies                       *)
(* 0 <= start_index <= end_index <= len(source), source being the text      *)
(* handed to the segmenter.                                                 *)
ClaimC22_OffsetsWithinSource ==
    (SegmentDone /\ fin.fn \in {"__call__", "process"}
        /\ BaseChunker_validate_input(fin.input_data) /\ fout.status = "returned")
    => WithinSource(fout.ret, fin.input_data.value)

\* the end of the raw window that starts at start, and the place in it of
\* its last sentence delimiter (-1 when it has none)
RawEnd(self, text, start) == Min2(start + self.chunk_size, Len(text))
LastDelimiter(self, text, start) ==
    sentence_end(PySlice(text, start, RawEnd(self, text, start)),
                 RawEnd(self, text, start) - start)

\* the end the snapping rule gives the window that starts at start
SnappedEnd(self, text, start) ==
    IF /\ RawEnd(self, text, start) < Len(text)
       /\ RLt(RMul(R(self.chunk_size), self.min_content_ratio),
              R(LastDelimiter(self, text, start)))
    THEN start + LastDelimiter(self, text, start) + 1
    ELSE RawEnd(self, text, start)

(* C25: fixed-window boundary snapping: a window that does not reach the    *)
(* end of the text and holds a sentence delimiter at an offset greater      *)
(* than chunk_size * min_content_ratio gives a chunk that ends right after  *)
(* the last such delimiter, every other window gives the raw window; for    *)
(* every chunk_overlap >= 0, chunk_overlap = 0 included.                    *)
ClaimC25_WindowsSnapToSentenceEnds ==
    (FixedDone /\ fout.status = "returned")
    => \A i \in 1..Len(fout.ret) :
           fout.ret[i].end_index
               = SnappedEnd(fin.self, fout.text, fout.ret[i].start_index)

\* the range of chunk b lies in the range of chunk a
RangeWithin(b, a) == a.start_index <= b.start_index /\ b.end_index <= a.end_index

(* C29: in FixedChunker output no chunk is redundant: no chunk follows a    *)
(* chunk whose end_index is len(text), and no chunk's range is contained    *)
(* in the range of the chunk before it, for chunk_overlap < chunk_size.     *)
ClaimC29_NoRedundantChunk ==
    (FixedDone /\ fout.status = "returned"
        /\ fin.self.chunk_overlap < fin.self.chunk_size)
    => /\ \A i \in 1..(Len(fout.ret) - 1) : fout.ret[i].end_index # Len(fout.text)
       /\ \A i \in 2..Len(fout.ret) : ~RangeWithin(fout.ret[i], fout.ret[i - 1])

(* C26: offsets address the content: every chunk of ParentChildChunker,     *)
(* parent or child, has as content the cleaned text sliced at               *)
(* [start_index, end_index) with the white space at both ends trimmed.      *)
ClaimC26_OffsetsAddressContent ==
    FamilyReturned
    => \A i \in 1..Len(fout.ret) :
           fout.ret[i].content
               = strip(PySlice(fout.text, fout.ret[i].start_index, fout.ret[i].end_index))

(* C27: ParentChildChunker always terminates on a non-empty text: the call  *)
(* returns or ends with an error, it never loops for ever.                  *)
ClaimC27_ParentChildTerminates ==
    (FamilyDone /\ BaseChunker_validate_input(fin.input_data))
    => fout.status \in {"returned", "raised"}

\* the children of the parent at position j
ChildPositions(chunks, j) ==
    {i \in 1..Len(chunks) : IsChild(chunks[i]) /\ ParentBefore(chunks, i) = j}
FirstOf(S) == CHOOSE i \in S : \A k \in S : i <= k
LastOf(S) == CHOOSE i \in S : \A k \in S : k <= i

(* C30: the children of a parent with non-empty content cover its whole     *)
(* content: the first child starts where the content starts, each next      *)
(* child starts at or before the end of the child before it, and the last   *)
(* child ends where the content ends; for child_overlap < child_size,       *)
(* child_overlap = 0 included.                                              *)
ClaimC30_ChildrenCoverParent ==
    (FamilyReturned /\ fin.self.child_overlap < fin.self.child_size)
    => \A j \in ParentPositions(fout.ret) :
           fout.ret[j].content # <<>>
           => /\ ChildPositions(fout.ret, j) # {}
              /\ fout.ret[FirstOf(ChildPositions(fout.ret, j))].start_index
                     = fout.ret[j].start_index
              /\ \A i \in ChildPositions(fout.ret, j) :
                     (i - 1) \in ChildPositions(fout.ret, j)
                     => fout.ret[i].start_index <= fout.ret[i - 1].end_index
              /\ fout.ret[LastOf(ChildPositions(fout.ret, j))].end_index
                     = fout.ret[j].start_index + Len(fout.ret[j].content)

-----------------------------------------------------------------------------
(* BaseRetriever.process run twice on one retriever: the result objects of  *)
(* a run are re-scored and sorted in place, and the second run meets the    *)
(* objects the first one left behind.                                       *)

\* a deterministic reranker: predict raises, or scores a pair by its content
\* (byid[chunk_id]), the same on every call
RepeatScorers ==
    {[raises |-> TRUE, byid |-> [i \in 1..MaxHits |-> Zero]]}
    \cup {[raises |-> FALSE, byid |-> f] : f \in [1..MaxHits -> RerankScores]}

RepeatConfigs ==
    {[top_k |-> k, rerank_enabled |-> re, similarity_threshold |-> th, fusion_method |-> "rrf"]
        : k \in 1..MaxTopK, re \in BOOLEAN, th \in {Zero, Rat(1, 2)}}

RepeatRetrievers ==
    {initialize(LeafRetriever("semantic", c), load_ok)
        : c \in RepeatConfigs, load_ok \in BOOLEAN}

\* the results _retrieve hands to process, objects being the result objects
\* an earlier run left: the objects of the earlier run are handed out again
RetrievedAliased(hits, objects) ==
    IF objects = <<>> THEN SemanticResults(hits) ELSE objects

\* SemanticRetriever._retrieve builds a new RetrievalResult for every hit
Retrieved(hits, objects) == SemanticResults(hits)

\* reranker.predict(pairs) for the pairs of results
PredictOn(self, scorer, results) ==
    [raises |-> scorer.raises,
     scores |-> [i \in 1..Len(results) |-> scorer.byid[results[i].chunk_id]]]

\* process(query) from the candidates, under the storage and the scorer
RunUnder(self, scorer, candidates) ==
    Staged(self, self.top_k, self.rerank_enabled, self.similarity_threshold,
           CandidateK(self, self.top_k, self.rerank_enabled),
           [ProbeEnv EXCEPT !.scorer = scorer], RetrieveOk(candidates, 1, 0))

\* the scorer sees the pairs of the filtered results
RunOn(self, scorer, candidates) ==
    RunUnder(self,
             PredictOn(self, scorer, RunUnder(self, NoScorer, candidates).filtered),
             candidates)

\* the candidate objects as a run leaves them: normalized in place, and
\* those handed to the reranker re-scored in place
ObjectsAfter(run, scorer, normalized) ==
    [i \in 1..Len(normalized) |->
        IF /\ run.rerank_pairs > 0
           /\ ~scorer.raises
           /\ \E j \in 1..Len(run.filtered) :
                  run.filtered[j].chunk_id = normalized[i].chunk_id
        THEN WithScore(normalized[i], scorer.byid[normalized[i].chunk_id])
        ELSE normalized[i]]

ObjectsLeft(run, scorer) ==
    ObjectsAfter(run, scorer,
                 IF run.candidates = <<>> THEN <<>> ELSE _normalize_scores(run.candidates))

InitRepeat ==
    /\ op = NoOp
    /\ last = NoCall
    /\ fin \in {[fn |-> "process twice", self |-> self, hits |-> hits, scorer |-> scorer]
                   : self \in RepeatRetrievers,
                     hits \in HitLists(MaxHits, {1}, HitScores),
                     scorer \in RepeatScorers}
    /\ fout = NoOut

\* the first retriever.process(query, ...)
RunFirst ==
    /\ fin.fn = "process twice"
    /\ fout = NoOut
    /\ fout' = [fn |-> "first",
                first |-> RunOn(fin.self, fin.scorer, Retrieved(fin.hits, <<>>)),
                objects |-> ObjectsLeft(RunOn(fin.self, fin.scorer,
                                              Retrieved(fin.hits, <<>>)), fin.scorer)]
    /\ UNCHANGED <<op, last, fin>>

\* the same call again, on the same retriever
RunAgain ==
    /\ fin.fn = "process twice"
    /\ fout # NoOut
    /\ fout.fn = "first"
    /\ fout' = [fn |-> "second", first |-> fout.first, objects |-> fout.objects,
                second |-> RunOn(fin.self, fin.scorer,
                                 Retrieved(fin.hits, fout.objects))]
    /\ UNCHANGED <<op, last, fin>>

NextRepeat == RunFirst \/ RunAgain

SpecRepeat == InitRepeat /\ [][NextRepeat]_vars

RepeatDone == fin.fn = "process twice" /\ fout # NoOut /\ fout.fn = "second"

-----------------------------------------------------------------------------
(* Global settings: get_settings, set_settings, reset_settings,             *)
(* with_settings.  A Settings instance is a number: DefaultSettings is      *)
(* what Settings() reads from the environment, 1 .. NumSettings are the     *)
(* instances callers create.                                                *)

DefaultSettings == 0
CustomSettings == 1..NumSettings

\* the state of ability.config: the module global, the lru_cache of
\* get_settings, the old_settings of the open with_settings blocks
\* (innermost first); returned is what the latest call returned when it was
\* get_settings
ConfigModule(_global_settings, cache, old_settings, returned) ==
    [fn |-> "config", _global_settings |-> _global_settings, cache |-> cache,
     old_settings |-> old_settings, returned |-> returned]

\* the body of get_settings
get_settings_body(config) ==
    IF config._global_settings # None THEN config._global_settings[1]
    ELSE DefaultSettings

\* @lru_cache() get_settings(): the body runs on the first call only
get_settings(config) ==
    IF config.cache # None THEN config.cache[1] ELSE get_settings_body(config)

InitSettings ==
    /\ op = NoOp
    /\ last = NoCall
    /\ fin = [fn |-> "config", installed |-> None, before |-> <<>>]
    /\ fout = ConfigModule(None, None, <<>>, None)

\* fin is what the calls so far make the settings in force: installed is the
\* instance set or entered last (None after a reset), before holds what was
\* in force when each open block was entered
GetSettings ==
    /\ fout.fn = "config"
    /\ fout' = [fout EXCEPT !.cache = Some(get_settings(fout)),
                            !.returned = Some(get_settings(fout))]
    /\ UNCHANGED <<op, last, fin>>

SetSettings ==
    /\ fout.fn = "config"
    /\ \E settings \in CustomSettings :
          /\ fout' = [fout EXCEPT !._global_settings = Some(settings), !.returned = None]
          /\ fin' = [fin EXCEPT !.installed = Some(settings)]
    /\ UNCHANGED <<op, last>>

ResetSettings ==
    /\ fout.fn = "config"
    /\ fout' = [fout EXCEPT !._global_settings = None, !.returned = None]
    /\ fin' = [fin EXCEPT !.installed = None]
    /\ UNCHANGED <<op, last>>

\* with with_settings(settings): up to the yield
EnterWithSettings ==
    /\ fout.fn = "config"
    /\ Len(fout.old_settings) < MaxBlocks
    /\ \E settings \in CustomSettings :
          /\ fout' = [fout EXCEPT !.old_settings = <<fout._global_settings>> \o @,
                                  !._global_settings = Some(settings),
                                  !.returned = None]
          /\ fin' = [fin EXCEPT !.before = <<fin.installed>> \o @,
                                !.installed = Some(settings)]
    /\ UNCHANGED <<op, last>>

\* the block is left, normally or by an exception: the finally clause
ExitWithSettings ==
    /\ fout.fn = "config"
    /\ fout.old_settings # <<>>
    /\ fout' = [fout EXCEPT !._global_settings = Head(fout.old_settings),
                            !.old_settings = Tail(@),
                            !.returned = None]
    /\ fin' = [fin EXCEPT !.installed = Head(fin.before), !.before = Tail(@)]
    /\ UNCHANGED <<op, last>>

NextSettings ==
    \/ GetSettings
    \/ SetSettings
    \/ ResetSettings
    \/ EnterWithSettings
    \/ ExitWithSettings

SpecSettings == InitSettings /\ [][NextSettings]_vars

\* the settings in force
InForce == IF fin.installed # None THEN fin.installed[1] ELSE DefaultSettings

(* C24: global settings override: in any sequence of get_settings,          *)
(* set_settings, reset_settings and with_settings calls, get_settings()     *)
(* returns the settings in force: s after set_settings(s), t inside a       *)
(* with_settings(t) block, and after the block what was in force before     *)
(* it; also when get_settings() was called before the override.             *)
ClaimC24_GetSettingsSeesOverride ==
    (fout.fn = "config" /\ fout.returned # None) => fout.returned[1] = InForce

-----------------------------------------------------------------------------
(* Lazy initialization of one operator shared by several callers.  Every    *)
(* caller makes initialize() and __call__ invocations; a step is one read   *)
(* or write of self._initialized, or one run of _initialize (for a          *)
(* retriever: the load of the cross-encoder, which never raises).  Under    *)
(* the schedule "sequential" an invocation starts only when no other is     *)
(* under way; under "concurrent" the callers' steps interleave freely.      *)
(* op.initialize_runs counts the runs of _initialize.                       *)

Callers == 1..NumCallers

\* BaseOperator.__init__
BaseOperator == [mode |-> "operator", _initialized |-> FALSE, initialize_runs |-> 0]

\* self._initialized stays as it was
FlagLeft(o) == o

\* self._initialized = True
FlagSet(o) == [o EXCEPT !._initialized = TRUE]

\* self._initialize()
RunInitialize(o) == [o EXCEPT !.initialize_runs = @ + 1]

InitShared ==
    /\ op = BaseOperator
    /\ last = NoCall
    /\ fin \in {[fn |-> "callers", schedule |-> s] : s \in {"sequential", "concurrent"}}
    /\ fout = [fn |-> "callers", pc |-> [c \in Callers |-> "idle"],
               calls |-> [c \in Callers |-> 0]]

MayStart(c) ==
    /\ fout.pc[c] = "idle"
    /\ fout.calls[c] < MaxCalls
    /\ fin.schedule = "sequential" => \A d \in Callers : fout.pc[d] = "idle"

Goes(c, pc) == fout' = [fout EXCEPT !.pc[c] = pc]
Returns(c) == fout' = [fout EXCEPT !.pc[c] = "idle", !.calls[c] = @ + 1]

\* a caller enters operator(input_data)
StartCall ==
    /\ fin.fn = "callers"
    /\ \E c \in Callers : MayStart(c) /\ Goes(c, "call_check")
    /\ UNCHANGED <<op, last, fin>>

\* a caller enters operator.initialize()
StartInitialize ==
    /\ fin.fn = "callers"
    /\ \E c \in Callers : MayStart(c) /\ Goes(c, "init_check")
    /\ UNCHANGED <<op, last, fin>>

\* __call__: if not self._initialized: self.initialize(); then the call
\* goes on to validate and process
CallCheck ==
    /\ fin.fn = "callers"
    /\ \E c \in Callers :
          /\ fout.pc[c] = "call_check"
          /\ IF op._initialized THEN Returns(c) ELSE Goes(c, "init_check")
    /\ UNCHANGED <<op, last, fin>>

\* initialize: if not self._initialized
InitCheck ==
    /\ fin.fn = "callers"
    /\ \E c \in Callers :
          /\ fout.pc[c] = "init_check"
          /\ IF op._initialized THEN Returns(c) ELSE Goes(c, "loading")
    /\ UNCHANGED <<op, last, fin>>

\* initialize: self._initialize()
Load ==
    /\ fin.fn = "callers"
    /\ \E c \in Callers :
          /\ fout.pc[c] = "loading"
          /\ op' = RunInitialize(op)
          /\ Goes(c, "loaded")
    /\ UNCHANGED <<last, fin>>

\* initialize: self._initialized = True
SetInitialized ==
    /\ fin.fn = "callers"
    /\ \E c \in Callers :
          /\ fout.pc[c] = "loaded"
          /\ op' = FlagSet(op)
          /\ Returns(c)
    /\ UNCHANGED <<last, fin>>

NextShared ==
    \/ StartCall
    \/ StartInitialize
    \/ CallCheck
    \/ InitCheck
    \/ Load
    \/ SetInitialized

SpecShared == InitShared /\ [][NextShared]_vars

SomeCallReturned == \E c \in Callers : fout.calls[c] > 0

-----------------------------------------------------------------------------
(* SemanticChunker.process without and with a loaded model *)

\* sentences with and without inner and leading blanks, one of them empty
SentenceKinds == {<<>>, <<"a">>, <<"#">>, <<" ", "a", "#">>, <<"a", " ", "#", " ", "a">>}

SentenceTexts ==
    {join(sentences, ".") : sentences \in UNION {[1..k -> SentenceKinds] : k \in 1..MaxSentences}}

\* what _initialize may load: nothing, or a model that finds no pair of
\* sentences dissimilar, one pair, or every pair
ModelVerdicts ==
    {{}, 1..(MaxSentences - 1)} \cup {{i} : i \in 1..(MaxSentences - 1)}

LoadedModels == {None} \cup {Some(splits) : splits \in ModelVerdicts}

SemanticSizes == {None} \cup {Some(n) : n \in 1..MaxSemanticSize}

InitSemantic ==
    /\ op = NoOp
    /\ last = NoCall
    /\ fin \in {[fn |-> "SemanticChunker.process",
                 self |-> SemanticChunker(min_chunk_size, max_chunk_size),
                 loaded |-> loaded,
                 input_data |-> StrInput(text), kwargs |-> DefaultKwargs]
                   : min_chunk_size \in {None, Some(1)}, max_chunk_size \in SemanticSizes,
                     loaded \in LoadedModels, text \in SentenceTexts}
    /\ fout = NoOut

\* BaseOperator.initialize of the chunker
InitializeSemantic ==
    /\ fin.fn = "SemanticChunker.process"
    /\ fout = NoOut
    /\ ~fin.self._initialized
    /\ fin' = [fin EXCEPT !.self = SemanticChunker_initialize(fin.self, fin.loaded)]
    /\ UNCHANGED <<op, last, fout>>

\* process, called on the chunker as it is
ApplySemantic ==
    /\ fin.fn = "SemanticChunker.process"
    /\ fout = NoOut
    /\ fout' = BaseChunker_process(fin.self, fin.input_data, fin.kwargs)
    /\ UNCHANGED <<op, last, fin>>

NextSemantic == InitializeSemantic \/ ApplySemantic

SpecSemantic == InitSemantic /\ [][NextSemantic]_vars

SemanticDone == fin.fn = "SemanticChunker.process" /\ fout # NoOut

FallbackDone == SemanticDone /\ fin.self.model = None

IsFallback(chunk) ==
    "fallback" \in DOMAIN chunk.metadata /\ chunk.metadata.fallback = TRUE

\* the chunks are, in order, runs of the sentences joined by a blank, every
\* sentence in exactly one run, and a run of several sentences fits max_size
RECURSIVE Consumes(_, _, _)
Consumes(chunks, sentences, max_size) ==
    IF chunks = <<>> THEN sentences = <<>>
    ELSE \E k \in 1..Len(sentences) :
            /\ Head(chunks).content = join(SubSeq(sentences, 1, k), " ")
            /\ (k = 1 \/ Len(Head(chunks).content) <= max_size)
            /\ Consumes(Tail(chunks), SubSeq(sentences, k + 1, Len(sentences)), max_size)

\* C21: without a model SemanticChunker returns without a call of
\* model.encode; every chunk carries fallback = true; chunk_index counts
\* 0, 1, 2, ... in output order; the sentences of the text appear across the
\* chunks in their order, none lost or duplicated; and every chunk is at
\* most max_chunk_size characters long or a single sentence
TheoremC21_FallbackIsDeterministic ==
    FallbackDone =>
        /\ fout.status = "returned"
        /\ fout.encode_calls = 0
        /\ \A i \in 1..Len(fout.ret) :
              IsFallback(fout.ret[i]) /\ fout.ret[i].chunk_index = i - 1
        /\ Consumes(fout.ret, split_by_sentences(fout.text), fin.self.max_chunk_size)

\* a fallback run with a sentence longer than max_chunk_size in a chunk of
\* its own and another chunk that joins two sentences
WitnessC21_OversizedAndJoinedSentences ==
    /\ FallbackDone
    /\ fout.status = "returned"
    /\ \E i \in 1..Len(fout.ret) : Len(fout.ret[i].content) > fin.self.max_chunk_size
    /\ Len(fout.ret) >= 2
    /\ Len(fout.ret) < Len(split_by_sentences(fout.text))

====
